---- MODULE Spec2Model ----
(***************************************************************************)
(* Character movement and collision resolution of station-delta:           *)
(* PlayerPhysics, CollisionSystem, the legacy OBB primitive, the camera    *)
(* decoupling of CameraController and NavigationSystem.                    *)
(*                                                                         *)
(* Numbers.  The program computes in IEEE doubles; the model computes in   *)
(* fixed point.  A length is an integer number of half millimetres         *)
(* (Scale units per metre), a time is an integer number of microseconds,   *)
(* a speed is in length units per second and a unit vector has length      *)
(* UnitLen.  Every quotient is truncated toward zero.                      *)
(***************************************************************************)
EXTENDS Integers, Sequences, FiniteSets, TLC

\* ------------------------------------------------------------------------
\* Fixed-point arithmetic
\* ------------------------------------------------------------------------
Scale == 2 * 1000          \* length units per metre
UnitLen == 10 * 100        \* length of a normalised vector
Micro == 1000 * 1000       \* microseconds per second

Abs(a) == IF a < 0 THEN -a ELSE a
Min(a, b) == IF a < b THEN a ELSE b
Max(a, b) == IF a > b THEN a ELSE b
\* Quotient truncated toward zero (b > 0).
Div(a, b) == IF a >= 0 THEN a \div b ELSE -((-a) \div b)

\* Math.sqrt, rounded down, for 0 <= n < 2^31: the three base-36 digits of
\* the root, most significant first.
SqrtFits(r, n) == r <= 46340 /\ r * r <= n
SqrtDigit(n, base, step) ==
    CHOOSE d \in 0..35 :
        /\ SqrtFits(base + d * step, n)
        /\ d = 35 \/ ~SqrtFits(base + (d + 1) * step, n)
ISqrt(n) ==
    LET a == SqrtDigit(n, 0, 36 * 36) * (36 * 36)
        b == a + SqrtDigit(n, a, 36) * 36
    IN b + SqrtDigit(n, b, 1)

\* b, once a has been evaluated (the order in which a loop's steps run).
After(a, b) == IF a = a THEN b ELSE b

\* ------------------------------------------------------------------------
\* THREE.Vector3
\* ------------------------------------------------------------------------
Vec(x, y, z) == <<x, y, z>>
Zero3 == <<0, 0, 0>>
Add(a, b) == <<a[1] + b[1], a[2] + b[2], a[3] + b[3]>>
Sub(a, b) == <<a[1] - b[1], a[2] - b[2], a[3] - b[3]>>
Dot(a, b) == a[1] * b[1] + a[2] * b[2] + a[3] * b[3]
Neg(a) == <<-a[1], -a[2], -a[3]>>
SetY(a, y) == <<a[1], y, a[3]>>
\* multiplyScalar by the rational num/den.
MulDiv(a, num, den) == <<Div(a[1] * num, den), Div(a[2] * num, den), Div(a[3] * num, den)>>
LengthSq(a) == Dot(a, a)
Length(a) == ISqrt(Dot(a, a))
\* normalize(): divideScalar(length() || 1); the result has length UnitLen.
Normalize(a) == IF Length(a) = 0 THEN Zero3 ELSE MulDiv(a, UnitLen, Length(a))
\* setLength(l) = normalize().multiplyScalar(l), the result in length units.
SetLength(a, l) == IF Length(a) = 0 THEN Zero3 ELSE MulDiv(a, l, Length(a))
\* a.cross(b) of two unit vectors, again in units of UnitLen.
Cross(a, b) ==
    <<Div(a[2] * b[3] - a[3] * b[2], UnitLen),
      Div(a[3] * b[1] - a[1] * b[3], UnitLen),
      Div(a[1] * b[2] - a[2] * b[1], UnitLen)>>
\* lengthSq() > bound for vectors whose square may leave the integer range.
LengthSqAbove(a, bound) ==
    \/ Abs(a[1]) > 20000 \/ Abs(a[2]) > 20000 \/ Abs(a[3]) > 20000
    \/ LengthSq(a) > bound

\* ------------------------------------------------------------------------
\* utils/constants.ts, in model units
\* ------------------------------------------------------------------------
Cm(c) == c * (Scale \div 100)                 \* centimetres to length units
GRAVITY == -((981 * Scale) \div 100)          \* -9.81 m/s^2, in units/s^2
PLAYER_HEIGHT == (18 * Scale) \div 10         \* 1.8 m
PLAYER_EYE_HEIGHT == (16 * Scale) \div 10     \* 1.6 m
PLAYER_RADIUS == Scale \div 10                \* 0.1 m
PLAYER_SPEED == 2 * Scale                     \* 2 m/s
PLAYER_JUMP_FORCE == 2 * Scale                \* 2.0 m/s
\* PlayerPhysics.MIN_FALL_Y = -10
MIN_FALL_Y == -(10 * Scale)
\* findGround's default and extended search distances (10 and 100)
GroundSearchDefault == 10 * Scale
GroundSearchExtended == 100 * Scale
\* Canvas.animate: physicsDelta = Math.min(deltaTime, 0.1)
MaxPhysicsDelta == Micro \div 10

\* ------------------------------------------------------------------------
\* Meshes.  A mesh is a THREE.Mesh with an axis-aligned box geometry, unit
\* scale and no rotation: its position (the local origin in the world) and
\* the bounding box of its geometry in local coordinates.
\* ------------------------------------------------------------------------
Mesh(px, py, pz, hx, hy, hz, ox, oz) ==
    [position |-> <<Cm(px), Cm(py), Cm(pz)>>,
     boxMin |-> <<Cm(ox - hx), Cm(-hy), Cm(oz - hz)>>,
     boxMax |-> <<Cm(ox + hx), Cm(hy), Cm(oz + hz)>>,
     worldMin |-> <<Cm(px + ox - hx), Cm(py - hy), Cm(pz + oz - hz)>>,
     worldMax |-> <<Cm(px + ox + hx), Cm(py + hy), Cm(pz + oz + hz)>>]

\* The meshes of the zones.  Arguments in centimetres: position, half
\* extents, and the horizontal offset of the geometry from the mesh origin.
Catalogue ==
    [floor    |-> Mesh(0, -2, 0, 4000, 2, 4000, 0, 0),         \* top y = 0, 4 cm thick
     lowFloor |-> Mesh(0, -1502, 0, 4000, 2, 4000, 0, 0),      \* top y = -15 m
     tile     |-> Mesh(0, -2, 0, 200, 2, 200, 0, 0),           \* top y = 0, x,z in [-2,2] m
     lowTile  |-> Mesh(0, -1502, 0, 200, 2, 200, 0, 0),        \* top y = -15 m, x,z in [-2,2] m
     pit      |-> Mesh(500, -202, 0, 300, 2, 300, 0, 0),       \* top y = -2 m, x in [2,8] m
     table    |-> Mesh(0, 70, 0, 100, 30, 100, 0, 0),          \* top y = 1 m, 0.6 m thick
     deck     |-> Mesh(300, 70, 0, 400, 30, 100, 0, 0),        \* thick, x in [-1,7] m
     shelf    |-> Mesh(0, 30, 0, 100, 10, 100, 0, 0),          \* top y = 0.4 m, 0.2 m thick
     wallN    |-> Mesh(0, 150, -150, 500, 150, 50, 0, 0),      \* z in [-2,-1] m
     wallE    |-> Mesh(150, 150, 0, 50, 150, 500, 0, 0),       \* x in [1,2] m
     lintel   |-> Mesh(0, 200, -150, 500, 100, 50, 0, 0),      \* z in [-2,-1] m, y from 1 m
     pier     |-> Mesh(0, 200, -34, 500, 100, 50, 0, 0),       \* z from -0.84 m, y from 1 m
     crate    |-> Mesh(0, 100, -50, 30, 30, 30, 0, 0),         \* object, half 0.3 m
     plank    |-> Mesh(0, 20, -15, 30, 30, 1, 0, 0),           \* thin low object
     beam     |-> Mesh(0, 100, -50, 200, 30, 30, 0, 0),        \* wide object
     beamHi   |-> Mesh(0, 100, -50, 200, 30, 30, 0, 0),        \* the 'high' objects of
     deckHi   |-> Mesh(300, 70, 0, 400, 30, 100, 0, 0),        \* beam, deck and shelf
     shelfHi  |-> Mesh(0, 30, 0, 100, 10, 100, 0, 0),
     post     |-> Mesh(35, 100, -20, 5, 30, 5, 0, 0),          \* object beside the crate
     lamp     |-> Mesh(0, 150, -50, 30, 30, 30, 0, 0),         \* object near eye height
     slotN    |-> Mesh(0, 150, -58, 500, 150, 50, 0, 0),       \* z in [-1.08,-0.08] m
     slotS    |-> Mesh(0, 150, 58, 500, 150, 50, 0, 0)]        \* z in [0.08,1.08] m
MeshData(id) == Catalogue[id]

\* The bounding box of mesh m in world coordinates (matrixWorld applied).
WorldMin(m) == MeshData(m).worldMin
WorldMax(m) == MeshData(m).worldMax

\* CollisionSystem.getObjectHeight: size.y * |worldScale.y|
getObjectHeight(m) == MeshData(m).boxMax[2] - MeshData(m).boxMin[2]

\* ------------------------------------------------------------------------
\* Ray casting against the room registry
\* ------------------------------------------------------------------------
Down == <<0, -UnitLen, 0>>

\* generateHorizontalDirections(16): (sin(i*22.5), 0, cos(i*22.5)), i = 0..15
SinTable == <<0, 383, 707, 924, 1000, 924, 707, 383, 0, -383, -707, -924, -1000, -924, -707, -383>>
generateHorizontalDirections ==
    [i \in 1..16 |-> <<SinTable[i], 0, SinTable[((i + 3) % 16) + 1]>>]

Far == 1000 * 1000
\* Entry and exit parameter of the ray o + t*d/UnitLen in the slab [lo, hi]
\* of one axis.  A ray parallel to the slab is inside for every t or never.
SlabEnter(o, d, lo, hi) ==
    IF d = 0 THEN (IF lo <= o /\ o <= hi THEN -Far ELSE Far)
    ELSE IF d > 0 THEN Div((lo - o) * UnitLen, d) ELSE Div((o - hi) * UnitLen, -d)
SlabExit(o, d, lo, hi) ==
    IF d = 0 THEN (IF lo <= o /\ o <= hi THEN Far ELSE -Far)
    ELSE IF d > 0 THEN Div((hi - o) * UnitLen, d) ELSE Div((o - lo) * UnitLen, -d)

NoHit == [hit |-> FALSE]
\* The intersection record of a ray entering the box of mesh m through the
\* face of the given axis at parameter tEnter; raw is o + tEnter * d.
EntryHit(m, d, lo, hi, raw, tEnter, axis) ==
    [hit |-> TRUE, object |-> m, distance |-> tEnter,
     point |-> [raw EXCEPT ![axis] = IF d[axis] > 0 THEN lo[axis] ELSE hi[axis]],
     normal |-> [Zero3 EXCEPT ![axis] = IF d[axis] > 0 THEN -UnitLen ELSE UnitLen]]
SlabHit(m, o, d, lo, hi, en, tEnter, tExit) ==
    IF en[1] = Far \/ en[2] = Far \/ en[3] = Far THEN NoHit
    ELSE IF tEnter < 0 \/ tEnter > tExit THEN NoHit
    ELSE EntryHit(m, d, lo, hi, Add(o, MulDiv(d, tEnter, UnitLen)), tEnter,
                  IF en[1] = tEnter THEN 1 ELSE IF en[2] = tEnter THEN 2 ELSE 3)
BoxHit(m, o, d, lo, hi, en, ex) ==
    SlabHit(m, o, d, lo, hi, en, Max(en[1], Max(en[2], en[3])), Min(ex[1], Min(ex[2], ex[3])))
BoxEntry(m, o, d, lo, hi) ==
    BoxHit(m, o, d, lo, hi,
           <<SlabEnter(o[1], d[1], lo[1], hi[1]), SlabEnter(o[2], d[2], lo[2], hi[2]),
             SlabEnter(o[3], d[3], lo[3], hi[3])>>,
           <<SlabExit(o[1], d[1], lo[1], hi[1]), SlabExit(o[2], d[2], lo[2], hi[2]),
             SlabExit(o[3], d[3], lo[3], hi[3])>>)
\* Mesh.raycast (front faces only): the point where the ray enters the box,
\* or no hit when it misses the box or starts inside it.
RayHit(m, o, d) == BoxEntry(m, o, d, WorldMin(m), WorldMax(m))

\* Variant of InsertHit that puts a hit before the hits of equal distance.
RECURSIVE InsertHitFirst(_, _)
InsertHitFirst(sorted, h) ==
    IF sorted = <<>> THEN <<h>>
    ELSE IF h.distance <= Head(sorted).distance THEN <<h>> \o sorted
    ELSE <<Head(sorted)>> \o InsertHitFirst(Tail(sorted), h)
\* Array.prototype.sort((a, b) => a.distance - b.distance): stable.
RECURSIVE InsertHit(_, _)
InsertHit(sorted, h) ==
    IF sorted = <<>> THEN <<h>>
    ELSE IF h.distance < Head(sorted).distance THEN <<h>> \o sorted
    ELSE <<Head(sorted)>> \o InsertHit(Tail(sorted), h)
RECURSIVE SortHits(_, _)
SortHits(hits, acc) ==
    IF hits = <<>> THEN acc
    ELSE SortHits(Tail(hits), InsertHit(acc, Head(hits)))
\* intersections.push(...hits) for every mesh of the registry, in order
RECURSIVE CollectHits(_, _, _, _)
PushHit(ms, o, d, acc, h) ==
    CollectHits(Tail(ms), o, d, IF h.hit THEN Append(acc, h) ELSE acc)
CollectHits(ms, o, d, acc) ==
    IF ms = <<>> THEN acc ELSE PushHit(ms, o, d, acc, RayHit(Head(ms), o, d))
\* CollisionSystem.raycast over the room registry ms
raycast(ms, o, d) == SortHits(CollectHits(ms, o, d, <<>>), <<>>)

\* ------------------------------------------------------------------------
\* CollisionSystem: ground probe and multi-ray wall probe (room registry)
\* ------------------------------------------------------------------------
\* MAX_GROUND_THICKNESS = PLAYER_HEIGHT * 0.1
MAX_GROUND_THICKNESS == PLAYER_HEIGHT \div 10

\* findGround, inner loop: the first hit below the bottom of the thick mesh
\* that is on another mesh, within maxDistance of that bottom, and thin.
RECURSIVE ContinueGround(_, _, _)
ContinueGround(continueIntersections, hit, maxDistance) ==
    IF continueIntersections = <<>> THEN NoHit
    ELSE IF /\ Head(continueIntersections).object # hit.object
            /\ Head(continueIntersections).distance <= maxDistance
            /\ getObjectHeight(Head(continueIntersections).object) <= MAX_GROUND_THICKNESS
    THEN [hit |-> TRUE, object |-> Head(continueIntersections).object,
          normal |-> Head(continueIntersections).normal,
          distance |-> Head(continueIntersections).distance + hit.distance,
          point |-> Head(continueIntersections).point]
    ELSE ContinueGround(Tail(continueIntersections), hit, maxDistance)

\* localBottom.applyMatrix4(matrixWorld): the mesh origin, lowered to the
\* bottom of the bounding box.
worldBottom(m) == Add(MeshData(m).position, <<0, MeshData(m).boxMin[2], 0>>)

\* findGround, outer loop over the sorted hits of the downward ray.
RECURSIVE GroundLoop(_, _, _)
BelowThick(ms, intersections, maxDistance, below) ==
    IF below.hit THEN below ELSE GroundLoop(ms, Tail(intersections), maxDistance)
GroundLoop(ms, intersections, maxDistance) ==
    IF intersections = <<>> THEN NoHit
    ELSE IF Head(intersections).distance > maxDistance
    THEN GroundLoop(ms, Tail(intersections), maxDistance)
    ELSE IF getObjectHeight(Head(intersections).object) <= MAX_GROUND_THICKNESS
    THEN Head(intersections)
    ELSE BelowThick(ms, intersections, maxDistance,
             ContinueGround(raycast(ms, worldBottom(Head(intersections).object), Down),
                            Head(intersections), maxDistance))

findGround(ms, position, maxDistance) ==
    GroundLoop(ms, raycast(ms, position, Down), maxDistance)

\* checkCapsuleCollision: 2 rows (0.4 m above the feet, eye height) of 16
\* horizontal rays; the first ray, in row then direction order, whose
\* nearest hit is closer than the radius.
NumRows == 1 + 1
RowHeight(row) ==
    (PLAYER_RADIUS * 4) + Div((PLAYER_EYE_HEIGHT - PLAYER_RADIUS * 4) * (row - 1), NumRows - 1)
\* The sorted hits of ray i (1..32, row by row) from the capsule at position.
CapsuleRay(ms, position, i) ==
    raycast(ms,
            SetY(position, position[2] - (PLAYER_EYE_HEIGHT - RowHeight(((i - 1) \div 16) + 1))),
            generateHorizontalDirections[((i - 1) % 16) + 1])
RayBlocked(intersections) ==
    intersections # <<>> /\ Head(intersections).distance < PLAYER_RADIUS
FirstBlocked(ms, position, blocked) ==
    IF blocked = {} THEN NoHit
    ELSE Head(CapsuleRay(ms, position, CHOOSE i \in blocked : \A j \in blocked : i <= j))
checkCapsuleCollision(ms, position) ==
    FirstBlocked(ms, position,
                 {i \in 1..(NumRows * 16) : RayBlocked(CapsuleRay(ms, position, i))})

\* ------------------------------------------------------------------------
\* CollisionSystem: object registry and OBB queries.  Object meshes are
\* unrotated, so every OBB has the identity rotation and the SAT test of
\* three's OBB.intersectsOBB reduces to the three world axes.  An entry of
\* the registry holds the mesh (the key of the Map), mesh.position as it is
\* now, and the OBB stored for the mesh.
\* ------------------------------------------------------------------------
createOBBFromMesh(m, meshPosition) ==
    [center |-> meshPosition,
     halfSize |-> MulDiv(Sub(MeshData(m).boxMax, MeshData(m).boxMin), 1, 2)]

\* Variant of updateOBB that moves the centre half of the way to the mesh.
updateOBBHalfway(obb, meshPosition) ==
    [obb EXCEPT !.center = MulDiv(Add(@, meshPosition), 1, 2)]
updateOBB(obb, meshPosition) == [obb EXCEPT !.center = meshPosition]

updateObjectOBBs(objs) ==
    [i \in 1..Len(objs) |-> [objs[i] EXCEPT !.obb = updateOBB(@, objs[i].position)]]

createPlayerOBB(position) ==
    [center |-> SetY(position, position[2] - (PLAYER_EYE_HEIGHT - PLAYER_HEIGHT \div 2)),
     halfSize |-> <<PLAYER_RADIUS, PLAYER_HEIGHT \div 2, PLAYER_RADIUS>>]

\* OBB.intersectsOBB for two boxes with identity rotation: touching boxes
\* intersect.
intersectsOBB(a, b) ==
    \A k \in 1..3 : Abs(a.center[k] - b.center[k]) <= a.halfSize[k] + b.halfSize[k]

NoObject == [found |-> FALSE]
\* Variant of FirstIntersecting that scans the registry from its end.
RECURSIVE LastIntersecting(_, _, _)
LastIntersecting(objs, playerOBB, i) ==
    IF i > Len(objs) THEN [found |-> FALSE]
    ELSE IF intersectsOBB(playerOBB, objs[Len(objs) + 1 - i].obb)
    THEN [found |-> TRUE, mesh |-> objs[Len(objs) + 1 - i].mesh,
          position |-> objs[Len(objs) + 1 - i].position,
          obb |-> objs[Len(objs) + 1 - i].obb]
    ELSE LastIntersecting(objs, playerOBB, i + 1)
RECURSIVE FirstIntersecting(_, _, _)
FirstIntersecting(objs, playerOBB, i) ==
    IF i > Len(objs) THEN NoObject
    ELSE IF intersectsOBB(playerOBB, objs[i].obb)
    THEN [found |-> TRUE, mesh |-> objs[i].mesh, position |-> objs[i].position,
          obb |-> objs[i].obb]
    ELSE FirstIntersecting(objs, playerOBB, i + 1)
\* Variant of checkObjectCollisions that tests the stored OBBs as they are.
checkObjectCollisionsStale(objs, playerOBB) == FirstIntersecting(objs, playerOBB, 1)
\* checkObjectCollisions: refresh every OBB, then the first intersecting
\* entry in registration order (or null).
checkObjectCollisions(objs, playerOBB) ==
    FirstIntersecting(updateObjectOBBs(objs), playerOBB, 1)

\* resolvePenetration: push along the line of centres, by the sphere
\* penetration depth plus a margin, at most MAX_PUSH_PER_SECOND * step time.
MARGIN == Scale \div 2000                       \* 0.0005 m
MAX_PUSH_PER_SECOND == PLAYER_SPEED * 2
CenterEpsilon == Scale \div 1000                \* 0.001 m
\* Variant of PushOut that pushes by the whole target distance.
PushOutUnclamped(direction, distance, minSeparation, maxPushThisStep) ==
    IF distance < minSeparation
    THEN MulDiv(direction, (minSeparation - distance) + MARGIN, UnitLen)
    ELSE Zero3
PushOut(direction, distance, minSeparation, maxPushThisStep) ==
    IF distance < minSeparation
    THEN MulDiv(direction,
                IF maxPushThisStep > 0
                THEN Min((minSeparation - distance) + MARGIN, maxPushThisStep)
                ELSE (minSeparation - distance) + MARGIN,
                UnitLen)
    ELSE Zero3
\* Variant of PushAlong that always pushes along the default direction.
PushAlongX(playerOBB, objectOBB, deltaTimeMicros, diff, distance) ==
    PushOut(<<UnitLen, 0, 0>>, distance,
            Max(objectOBB.halfSize[1], Max(objectOBB.halfSize[2], objectOBB.halfSize[3]))
                + Max(playerOBB.halfSize[1], playerOBB.halfSize[2]),
            Max(0, Div(MAX_PUSH_PER_SECOND * deltaTimeMicros, Micro)))
PushAlong(playerOBB, objectOBB, deltaTimeMicros, diff, distance) ==
    PushOut(IF distance < CenterEpsilon THEN <<UnitLen, 0, 0>> ELSE MulDiv(diff, UnitLen, distance),
            distance,
            Max(objectOBB.halfSize[1], Max(objectOBB.halfSize[2], objectOBB.halfSize[3]))
                + Max(playerOBB.halfSize[1], playerOBB.halfSize[2]),
            Max(0, Div(MAX_PUSH_PER_SECOND * deltaTimeMicros, Micro)))
resolvePenetration(playerOBB, objectOBB, deltaTimeMicros) ==
    PushAlong(playerOBB, objectOBB, deltaTimeMicros,
              Sub(playerOBB.center, objectOBB.center),
              Length(Sub(playerOBB.center, objectOBB.center)))

\* projectOntoTangentPlane: moveVector - (moveVector . normal) * normal
projectOntoTangentPlane(moveVector, normal) ==
    Sub(moveVector, MulDiv(normal, Dot(moveVector, normal), UnitLen * UnitLen))

\* calculateCollisionNormal: from the object to the player, world-up when
\* the two positions coincide.
calculateCollisionNormal(playerPos, objectPos) ==
    IF Length(Sub(playerPos, objectPos)) > 0
    THEN Normalize(Sub(playerPos, objectPos)) ELSE <<0, UnitLen, 0>>

\* ------------------------------------------------------------------------
\* PlayerPhysics.slideCollision
\* ------------------------------------------------------------------------
VelocityEpsilonSq == (Scale * Scale) \div 10000     \* lengthSq() < 0.0001
SlideEpsilonSq == (Scale * Scale) \div 1000000      \* lengthSq() <= 0.000001
COLLISION_SPEED_FACTOR == 40                        \* percent
slideAttempts == <<75, 50, 25, 10>>                 \* percent
SurfaceOffset == PLAYER_RADIUS + Scale \div 1000    \* PLAYER_RADIUS + 0.001

\* Whether the player box at position p intersects a registered object.
Collides(objs, p) == checkObjectCollisions(objs, createPlayerOBB(p)).found

\* Variant of ReducedSlide that tries the smallest fraction first.
RECURSIVE ReducedSlideSmallestFirst(_, _, _, _)
ReducedSlideSmallestFirst(objs, beforeSlidePosition, limitedSlideVector, i) ==
    IF i > Len(slideAttempts) THEN beforeSlidePosition
    ELSE IF ~Collides(objs, Add(beforeSlidePosition,
                                MulDiv(limitedSlideVector,
                                       slideAttempts[Len(slideAttempts) + 1 - i], 100)))
    THEN Add(beforeSlidePosition,
             MulDiv(limitedSlideVector, slideAttempts[Len(slideAttempts) + 1 - i], 100))
    ELSE ReducedSlideSmallestFirst(objs, beforeSlidePosition, limitedSlideVector, i + 1)
\* The for loop over slideAttempts: the first reduced slide position that
\* collides with no object, or the pushed-out position.
RECURSIVE ReducedSlide(_, _, _, _)
ReducedSlide(objs, beforeSlidePosition, limitedSlideVector, i) ==
    IF i > Len(slideAttempts) THEN beforeSlidePosition
    ELSE IF ~Collides(objs, Add(beforeSlidePosition,
                                MulDiv(limitedSlideVector, slideAttempts[i], 100)))
    THEN Add(beforeSlidePosition, MulDiv(limitedSlideVector, slideAttempts[i], 100))
    ELSE ReducedSlide(objs, beforeSlidePosition, limitedSlideVector, i + 1)

\* Lines 147-194: the slide applied from the resolved position.
ApplySlide(objs, resolvedPosition, collisionNormal, slideVector, limitedSlideVector) ==
    [finalPosition |->
        IF LengthSq(slideVector) <= SlideEpsilonSq THEN resolvedPosition
        ELSE IF Collides(objs, Add(resolvedPosition, limitedSlideVector))
        THEN ReducedSlide(objs, resolvedPosition, limitedSlideVector, 1)
        ELSE Add(resolvedPosition, limitedSlideVector),
     collided |-> TRUE,
     resolvedPosition |-> resolvedPosition,
     collisionNormal |-> collisionNormal,
     slideVector |-> slideVector,
     limitedSlideVector |-> limitedSlideVector]
\* Lines 153-160: the slide, at most COLLISION_SPEED_FACTOR of the step.
LimitSlide(objs, velocity, resolvedPosition, collisionNormal, slideVector) ==
    ApplySlide(objs, resolvedPosition, collisionNormal, slideVector,
               SetLength(slideVector,
                         Min(Length(slideVector),
                             Div(Length(velocity) * COLLISION_SPEED_FACTOR, 100))))
\* Lines 141-145: the step projected on the tangent plane, kept horizontal.
SlideOn(objs, velocity, resolvedPosition, collisionNormal) ==
    LimitSlide(objs, velocity, resolvedPosition, collisionNormal,
               SetY(projectOntoTangentPlane(velocity, collisionNormal), 0))
\* Lines 135-139: collisionNormal.y = 0, world-up when nothing is left.
Horizontalize(normal) ==
    IF LengthSq(SetY(normal, 0)) = 0 THEN <<0, UnitLen, 0>> ELSE SetY(normal, 0)
\* Lines 127-133
SlideFrom(objs, velocity, objectCollision, resolvedPosition) ==
    SlideOn(objs, velocity, resolvedPosition,
            Horizontalize(calculateCollisionNormal(resolvedPosition,
                                                   objectCollision.position)))
\* Lines 118-127
ResolveObject(objs, velocity, deltaTimeMicros, destination, objectCollision) ==
    IF ~objectCollision.found
    THEN [finalPosition |-> destination, collided |-> FALSE]
    ELSE SlideFrom(objs, velocity, objectCollision,
                   Add(destination,
                       resolvePenetration(createPlayerOBB(destination), objectCollision.obb,
                                          deltaTimeMicros)))
\* Step 1 (lines 109-195): the position after the object phase.
ObjectPhase(objs, position, velocity, deltaTimeMicros) ==
    ResolveObject(objs, velocity, deltaTimeMicros, Add(position, velocity),
                  checkObjectCollisions(objs, createPlayerOBB(Add(position, velocity))))

\* The positions lines 163 and 174 test, in the order the code tests them:
\* the full slide, then slideAttempts.
SlideCandidates(beforeSlidePosition, limitedSlideVector) ==
    <<Add(beforeSlidePosition, limitedSlideVector)>> \o
    [i \in 1..Len(slideAttempts) |->
        Add(beforeSlidePosition, MulDiv(limitedSlideVector, slideAttempts[i], 100))]
\* Variant of BaseCase that admits one more level.
BaseCaseLate(velocity, maxRecursion) ==
    LengthSq(velocity) < VelocityEpsilonSq \/ maxRecursion < 0
\* The base case admits recursion only while maxRecursion > 0.
BaseCase(velocity, maxRecursion) ==
    LengthSq(velocity) < VelocityEpsilonSq \/ maxRecursion <= 0

\* Lines 214-229: the velocity left along the sliding plane.
SlideVelocity(finalPosition, collisionPoint, slidingPlaneNormal) ==
    Sub(Sub(finalPosition,
            MulDiv(slidingPlaneNormal,
                   Div(Dot(Sub(finalPosition, collisionPoint), slidingPlaneNormal), UnitLen),
                   UnitLen)),
        collisionPoint)

\* slideCollision returns the resolved position; the model also returns the
\* number of invocations that went past the base case (levels), whether any
\* collision query was made, and whether an object was hit.
RECURSIVE slideCollision(_, _, _, _, _, _)
Recurse(phase, rec) ==
    [position |-> rec.position, levels |-> 1 + rec.levels, queried |-> TRUE,
     objectHit |-> phase.collided \/ rec.objectHit]
\* Lines 205-232, with newPosition the point touching the surface.
SlideAlongRoom(ms, objs, deltaTimeMicros, maxRecursion, phase, collisionPoint, newPosition) ==
    Recurse(phase,
            slideCollision(ms, objs, newPosition,
                           SlideVelocity(phase.finalPosition, collisionPoint,
                                         Normalize(Sub(collisionPoint, newPosition))),
                           deltaTimeMicros, maxRecursion - 1))
\* Step 2 (lines 197-232)
RoomPhase(ms, objs, deltaTimeMicros, maxRecursion, phase, roomCollision) ==
    IF ~roomCollision.hit
    THEN [position |-> phase.finalPosition, levels |-> 1, queried |-> TRUE,
          objectHit |-> phase.collided]
    ELSE SlideAlongRoom(ms, objs, deltaTimeMicros, maxRecursion, phase, roomCollision.point,
                        Add(roomCollision.point,
                            MulDiv(roomCollision.normal, SurfaceOffset, UnitLen)))
AfterObjects(ms, objs, deltaTimeMicros, maxRecursion, phase) ==
    After(phase, RoomPhase(ms, objs, deltaTimeMicros, maxRecursion, phase,
                           checkCapsuleCollision(ms, phase.finalPosition)))
slideCollision(ms, objs, position, velocity, deltaTimeMicros, maxRecursion) ==
    IF BaseCase(velocity, maxRecursion)
    THEN [position |-> position, levels |-> 0, queried |-> FALSE, objectHit |-> FALSE]
    ELSE AfterObjects(ms, objs, deltaTimeMicros, maxRecursion,
                      ObjectPhase(objs, position, velocity, deltaTimeMicros))

\* ------------------------------------------------------------------------
\* legacy/OBB.ts: the oriented box of the older collision path and its
\* separating-axis test.  Axes are unit vectors of length UnitLen.
\* ------------------------------------------------------------------------
\* constructor: centre and half extents cloned, the three axes normalised
OBB(center, halfExtents, axes) ==
    [center |-> center, halfExtents |-> halfExtents,
     axes |-> <<Normalize(axes[1]), Normalize(axes[2]), Normalize(axes[3])>>]

\* halfExtents.getComponent(i) * |axes[i] . normalizedAxis|
AxisRadius(obb, normalizedAxis, i) ==
    Div(obb.halfExtents[i] * Div(Abs(Dot(obb.axes[i], normalizedAxis)), UnitLen), UnitLen)
ProjectOn(obb, normalizedAxis, centerProjection, radius) ==
    [min |-> centerProjection - radius, max |-> centerProjection + radius]
ProjectNormalized(obb, normalizedAxis) ==
    ProjectOn(obb, normalizedAxis,
              Div(Dot(obb.center, normalizedAxis), UnitLen),
              AxisRadius(obb, normalizedAxis, 1) + AxisRadius(obb, normalizedAxis, 2)
                  + AxisRadius(obb, normalizedAxis, 3))
\* projectOntoAxis: the interval the box covers on the axis
projectOntoAxis(obb, axis) == ProjectNormalized(obb, Normalize(axis))

\* Lines 159-168: the cross products of the axes that are not parallel.
\* Variant of NotParallel that keeps every cross product.
NotParallelAny(cross) == TRUE
NotParallel(cross) == Length(cross) > UnitLen \div 1000
CrossProducts(obb1, obb2) ==
    [k \in 1..9 |-> Cross(obb1.axes[((k - 1) \div 3) + 1], obb2.axes[((k - 1) % 3) + 1])]
NormalizeAll(crosses) == [k \in 1..Len(crosses) |-> Normalize(crosses[k])]
\* Lines 147-168: the axes to test, in the order they are tested.
CandidateAxes(obb1, obb2) ==
    <<obb1.axes[1], obb1.axes[2], obb1.axes[3], obb2.axes[1], obb2.axes[2], obb2.axes[3]>>
        \o NormalizeAll(SelectSeq(CrossProducts(obb1, obb2), NotParallel))

\* Line 179: the projections do not overlap.
\* Variant of Separated that tests one side only.
SeparatedOneSided(proj1, proj2) == proj1.max < proj2.min
Separated(proj1, proj2) == proj1.max < proj2.min \/ proj2.max < proj1.min
\* Line 185
\* Variant of Overlap that measures from the first box's upper end only.
OverlapOneSided(proj1, proj2) == proj1.max - proj2.min
Overlap(proj1, proj2) == Min(proj1.max - proj2.min, proj2.max - proj1.min)

\* Lines 192-200: the axis, negated when it points away from obb2.
\* Variant of OrientNormal that returns the axis as it was tested.
OrientNormalAsTested(obb1, obb2, minPenetrationAxis) == minPenetrationAxis
OrientNormal(obb1, obb2, minPenetrationAxis) ==
    IF Dot(Sub(obb2.center, obb1.center), minPenetrationAxis) < 0
    THEN Neg(minPenetrationAxis) ELSE minPenetrationAxis
\* Lines 174-206: the loop over the axes, then the orientation of the normal.
RECURSIVE TestAxes(_, _, _, _, _, _)
TestAxis(obb1, obb2, axes, k, minPenetration, minPenetrationAxis, proj1, proj2) ==
    IF Separated(proj1, proj2) THEN [colliding |-> FALSE]
    ELSE IF Overlap(proj1, proj2) < minPenetration
    THEN TestAxes(obb1, obb2, axes, k + 1, Overlap(proj1, proj2), axes[k])
    ELSE TestAxes(obb1, obb2, axes, k + 1, minPenetration, minPenetrationAxis)
TestAxes(obb1, obb2, axes, k, minPenetration, minPenetrationAxis) ==
    IF k > Len(axes)
    THEN [colliding |-> TRUE, penetrationDepth |-> minPenetration,
          normal |-> OrientNormal(obb1, obb2, minPenetrationAxis)]
    ELSE TestAxis(obb1, obb2, axes, k, minPenetration, minPenetrationAxis,
                  projectOntoAxis(obb1, axes[k]), projectOntoAxis(obb2, axes[k]))
\* testOBBvsOBB: minPenetration starts at Infinity
testOBBvsOBB(obb1, obb2) ==
    TestAxes(obb1, obb2, CandidateAxes(obb1, obb2), 1, Far, Zero3)

\* ------------------------------------------------------------------------
\* State
\* ------------------------------------------------------------------------
VARIABLES
    meshes,              \* CollisionSystem.meshes: room registry, in registration order
    objectMeshes,        \* CollisionSystem.objectMeshes: sequence of [mesh, obb]
    position,            \* PlayerPhysics.position
    velocity,            \* PlayerPhysics.velocity
    pushbackVelocity,    \* PlayerPhysics.pushbackVelocity
    isOnGround,          \* PlayerPhysics.isOnGround
    lastSafePosition,    \* PlayerPhysics.lastSafePosition: <<>> is null, <<p>> a position
    needsGroundSnap,     \* PlayerPhysics.needsGroundSnap
    canJump,             \* CameraController.canJump
    direction,           \* CameraController.getDirection(), a horizontal unit vector
    cameraPosition,      \* CameraController.camera.position (rendered)
    targetPosition,      \* CameraController.targetPosition
    positionInitialized, \* CameraController.positionInitialized
    frames,              \* number of update() calls so far
    teleports,           \* number of teleport() calls so far
    zones,               \* ZoneManager.zones: zone id -> [objects, loaded, loading]
    currentZoneId,       \* ZoneManager.currentZoneId
    isPhysicsReady,      \* Canvas: isPhysicsReadyRef.current
    tasks,               \* Canvas and ZoneManager: the asynchronous calls started so far
    last                 \* record of the last operation (history)

vars == <<meshes, objectMeshes, position, velocity, pushbackVelocity, isOnGround,
          lastSafePosition, needsGroundSnap, canJump, direction, cameraPosition,
          targetPosition, positionInitialized, frames, teleports, zones,
          currentZoneId, isPhysicsReady, tasks, last>>
Streaming == <<zones, currentZoneId, isPhysicsReady, tasks>>

\* Bounds of the exploration
MaxFrames == 2
MaxTeleports == 1
MaxTasks == 3

\* ------------------------------------------------------------------------
\* Inputs
\* ------------------------------------------------------------------------
\* Clamped frame times, in microseconds (whole milliseconds): the clamp
\* itself and a short frame whose movement is not a whole number of steps.
DeltaTimes == {MaxPhysicsDelta, 27 * 1000}

Input(f, b, l, r, j) ==
    [moveForward |-> f, moveBackward |-> b, moveLeft |-> l, moveRight |-> r, jump |-> j]
Inputs ==
    {Input(FALSE, FALSE, FALSE, FALSE, FALSE), Input(TRUE, FALSE, FALSE, FALSE, FALSE),
     Input(FALSE, FALSE, TRUE, FALSE, FALSE), Input(TRUE, FALSE, FALSE, TRUE, FALSE),
     Input(FALSE, FALSE, FALSE, FALSE, TRUE), Input(TRUE, FALSE, FALSE, FALSE, TRUE)}
NoMovement(input) ==
    ~input.moveForward /\ ~input.moveBackward /\ ~input.moveLeft /\ ~input.moveRight

\* Camera headings: facing -z, and a 3-4-5 heading between +x and -z.
Directions == {<<0, 0, -UnitLen>>, <<(UnitLen * 3) \div 5, 0, -((UnitLen * 4) \div 5)>>}

\* Zone contents: the meshes a loaded zone registers as room and as object.
Scenes ==
    {[rooms |-> <<"floor">>, objects |-> <<"crate">>],
     [rooms |-> <<"floor">>, objects |-> <<"plank">>],
     [rooms |-> <<"floor", "wallN", "wallE">>, objects |-> <<>>],
     [rooms |-> <<"lowFloor">>, objects |-> <<>>],
     [rooms |-> <<>>, objects |-> <<>>]}

\* Teleport targets, in centimetres: a spawn above the origin, a high spawn,
\* a point just above the global floor, a point next to the wall corner.
TeleportTargets ==
    {<<Cm(0), Cm(300), Cm(0)>>, <<Cm(1000), Cm(5000), Cm(1000)>>,
     <<Cm(0), Cm(-999), Cm(0)>>, <<Cm(85), Cm(200), Cm(-85)>>}

\* ------------------------------------------------------------------------
\* PlayerPhysics.update
\* ------------------------------------------------------------------------
\* CameraController.getRight: cross(direction, (0,1,0)).normalize()
getRight(dir) == Normalize(<<-dir[3], 0, dir[1]>>)

\* Lines 250-256: the sum of the pressed directions, flattened.
PressedDirections(dir, right, input) ==
    SetY(Add(Add(IF input.moveForward THEN dir ELSE Zero3,
                 IF input.moveBackward THEN Neg(dir) ELSE Zero3),
             Add(IF input.moveRight THEN right ELSE Zero3,
                 IF input.moveLeft THEN Neg(right) ELSE Zero3)),
         0)
\* Lines 263-265: normalize().multiplyScalar(PLAYER_SPEED * deltaTime)
ScaleMove(flat, deltaTime) ==
    IF LengthSq(flat) > 0
    THEN MulDiv(Normalize(flat), Div(PLAYER_SPEED * (deltaTime \div 1000), 1000), UnitLen)
    ELSE Zero3
MoveVector(dir, input, deltaTime) ==
    ScaleMove(PressedDirections(dir, getRight(dir), input), deltaTime)

maxStepDistance == PLAYER_RADIUS \div 2

\* Lines 273-286: the sub-step loop.  acc is the position so far, together
\* with what the model observes of the loop: the number of sub-steps, the
\* longest sub-step, the sums of the sub-step lengths and times, the deepest
\* slideCollision nesting, whether an object was hit, and the number of
\* sub-steps that slideCollision returned from without a collision query.
RECURSIVE SubSteps(_, _, _, _, _, _, _)
StepDone(ms, objs, moveVector, totalDistance, remainingDistance, deltaTime, acc,
         stepDistance, slid) ==
    SubSteps(ms, objs, moveVector, totalDistance, remainingDistance - stepDistance, deltaTime,
             [position |-> slid.position,
              steps |-> acc.steps + 1,
              longest |-> Max(stepDistance, acc.longest),
              sumDistance |-> acc.sumDistance + stepDistance,
              sumTime |-> acc.sumTime + Div(deltaTime * stepDistance, totalDistance),
              levels |-> Max(slid.levels, acc.levels),
              objectHit |-> slid.objectHit \/ acc.objectHit,
              skipped |-> acc.skipped + (IF slid.queried THEN 0 ELSE 1)])
Step(ms, objs, moveVector, totalDistance, remainingDistance, deltaTime, acc, stepDistance) ==
    StepDone(ms, objs, moveVector, totalDistance, remainingDistance, deltaTime, acc,
             stepDistance,
             After(acc, slideCollision(ms, objs, acc.position,
                                       SetLength(moveVector, stepDistance),
                                       Div(deltaTime * stepDistance, totalDistance), 3)))
SubSteps(ms, objs, moveVector, totalDistance, remainingDistance, deltaTime, acc) ==
    IF remainingDistance <= 0 THEN acc
    ELSE Step(ms, objs, moveVector, totalDistance, remainingDistance, deltaTime, acc,
              Min(maxStepDistance, remainingDistance))

NoSteps(pos) ==
    [position |-> pos, steps |-> 0, longest |-> 0, sumDistance |-> 0, sumTime |-> 0,
     levels |-> 0, objectHit |-> FALSE, skipped |-> 0]
Walk(ms, objs, pos, moveVector, totalDistance, deltaTime) ==
    SubSteps(ms, objs, moveVector, totalDistance, totalDistance, deltaTime, NoSteps(pos))
\* Lines 245-287: horizontal movement.
Horizontal(ms, objs, pos, dir, input, deltaTime) ==
    Walk(ms, objs, pos, MoveVector(dir, input, deltaTime),
         Length(MoveVector(dir, input, deltaTime)), deltaTime)

PENETRATION_THRESHOLD == 20          \* percent of the radius
PUSHBACK_MULTIPLIER == 2
PUSHBACK_DAMPING == 85               \* percent
PushbackEpsilonSq == (Scale * Scale) \div 10000      \* lengthSq() vs 0.0001

\* Lines 289-300: gravity, jump, vertical movement.  The frame record s
\* carries the values update() is about to write.
GravityAndJump(deltaTime, input, moved, jumped, vy) ==
    [position |-> SetY(moved.position,
                       moved.position[2] + Div(vy * (deltaTime \div 1000), 1000)),
     velocity |-> SetY(velocity, vy),
     pushbackVelocity |-> pushbackVelocity,
     isOnGround |-> isOnGround /\ ~jumped,
     canJump |-> canJump /\ ~jumped,
     lastSafePosition |-> lastSafePosition,
     needsGroundSnap |-> needsGroundSnap,
     jumped |-> jumped,
     moved |-> moved]
\* Variant of Jumps that asks for the request only.
JumpsAnywhere(requested, onGround, armed) == requested
\* Line 292: input.jump && this.isOnGround && cameraController.getCanJump()
Jumps(requested, onGround, armed) == requested /\ onGround /\ armed
Vertical(deltaTime, input, moved) ==
    GravityAndJump(deltaTime, input, moved,
                   Jumps(input.jump, isOnGround, canJump),
                   IF Jumps(input.jump, isOnGround, canJump) THEN PLAYER_JUMP_FORCE
                   ELSE velocity[2] + Div(GRAVITY * (deltaTime \div 1000), 1000))

\* Variant of StandOn that leaves the height where the fall put it.
StandWhereFell(newPosition, groundCheck) == newPosition
\* newPosition.y = groundCheck.point.y + PLAYER_EYE_HEIGHT
StandOn(newPosition, groundCheck) ==
    SetY(newPosition, groundCheck.point[2] + PLAYER_EYE_HEIGHT)
\* Variant of Grounded that keeps the player grounded when nothing is found.
GroundedSticky(landed, wasOnGround) == landed \/ wasOnGround
\* Lines 317, 325, 329, 332: isOnGround is set when the player lands and
\* cleared otherwise.
Grounded(landed, wasOnGround) == landed
\* Variant of Rest that leaves the vertical velocity of a landing player.
RestStillFalling(v, landed) == v
\* Lines 315, 323: this.velocity.y = 0 when the player lands.
Rest(v, landed) == IF landed THEN SetY(v, 0) ELSE v
\* Lines 302-333: the ground check.
Land(s, groundCheck, landed) ==
    [position |-> IF landed THEN StandOn(s.position, groundCheck) ELSE s.position,
     velocity |-> Rest(s.velocity, landed),
     pushbackVelocity |-> s.pushbackVelocity,
     isOnGround |-> Grounded(landed, s.isOnGround),
     canJump |-> landed \/ s.canJump,
     lastSafePosition |->
         IF landed THEN <<StandOn(s.position, groundCheck)>> ELSE s.lastSafePosition,
     needsGroundSnap |-> s.needsGroundSnap /\ ~groundCheck.hit,
     jumped |-> s.jumped,
     moved |-> s.moved,
     landed |-> landed,
     groundHit |-> groundCheck.hit,
     beforeGround |-> s.position,
     deep |-> FALSE, shallow |-> FALSE, beforeFinal |-> s.position,
     pushed |-> FALSE, beforePushback |-> s.position]
GroundCheck(s, groundCheck) ==
    Land(s, groundCheck,
         groundCheck.hit /\ (s.needsGroundSnap
                             \/ s.position[2] <= groundCheck.point[2] + PLAYER_EYE_HEIGHT))
Ground(s) ==
    After(s, GroundCheck(s, findGround(meshes, s.position,
                                       IF s.needsGroundSnap THEN GroundSearchExtended
                                       ELSE GroundSearchDefault)))

\* Lines 335-363: the final room check: a shallow penetration is pushed out
\* now, a deep one only adds to the pushback velocity.  The record also
\* keeps which of the two happened and the position the check began with.
Push(s, deltaTime, finalCollision, shallow, deep, basePushDistance, threshold) ==
    [s EXCEPT
        !.deep = deep, !.shallow = shallow, !.beforeFinal = s.position,
        !.position =
            IF shallow THEN Add(@, MulDiv(finalCollision.normal, basePushDistance, UnitLen))
            ELSE @,
        !.pushbackVelocity =
            IF deep
            THEN Add(@, MulDiv(finalCollision.normal,
                               Div(Div(basePushDistance * basePushDistance * PUSHBACK_MULTIPLIER,
                                       threshold) * 1000,
                                   deltaTime \div 1000),
                               UnitLen))
            ELSE @]
Penetration(s, deltaTime, finalCollision, penetrating, basePushDistance, threshold) ==
    Push(s, deltaTime, finalCollision,
         penetrating /\ ~(basePushDistance > threshold),
         penetrating /\ basePushDistance > threshold,
         basePushDistance, threshold)
FinalCollision(s, deltaTime, finalCollision, distance) ==
    Penetration(s, deltaTime, finalCollision,
                finalCollision.hit /\ distance < PLAYER_RADIUS,
                PLAYER_RADIUS - distance,
                Div(PLAYER_RADIUS * PENETRATION_THRESHOLD, 100))
FinalCheck(s, deltaTime, finalCollision) ==
    FinalCollision(s, deltaTime, finalCollision,
                   IF finalCollision.hit THEN Length(Sub(s.position, finalCollision.point))
                   ELSE 0)
Final(s, deltaTime) ==
    After(s, FinalCheck(s, deltaTime, checkCapsuleCollision(meshes, s.position)))

\* Lines 365-377: the smooth pushback and its damping.
Damp(s, deltaTime, pushing, damped) ==
    [s EXCEPT
        !.pushed = pushing, !.beforePushback = s.position,
        !.position = IF pushing THEN Add(@, MulDiv(s.pushbackVelocity, deltaTime \div 1000, 1000))
                     ELSE @,
        !.pushbackVelocity =
            IF ~pushing THEN @
            ELSE IF ~LengthSqAbove(damped, PushbackEpsilonSq - 1) THEN Zero3
            ELSE damped]
Pushback(s, deltaTime) ==
    Damp(s, deltaTime, LengthSqAbove(s.pushbackVelocity, PushbackEpsilonSq),
         MulDiv(s.pushbackVelocity, PUSHBACK_DAMPING, 100))

\* Variant of Restore that ignores the recorded position.
RestoreClampOnly(newPosition, lastSafe) == SetY(newPosition, MIN_FALL_Y)
\* Lines 382-386: the position the safety net puts the player at.
Restore(newPosition, lastSafe) ==
    IF lastSafe # <<>> THEN lastSafe[1] ELSE SetY(newPosition, MIN_FALL_Y)

\* Lines 379-391: the fall-through safety net.  The result holds the new
\* value of every field update() writes, and what the frame observed.
SafetyNet(s) ==
[position |-> IF s.position[2] >= MIN_FALL_Y THEN s.position
                  ELSE Restore(s.position, s.lastSafePosition),
     velocity |-> IF s.position[2] < MIN_FALL_Y THEN Zero3 ELSE s.velocity,
     pushbackVelocity |-> IF s.position[2] < MIN_FALL_Y THEN Zero3 ELSE s.pushbackVelocity,
     isOnGround |-> s.isOnGround /\ ~(s.position[2] < MIN_FALL_Y),
     canJump |-> s.canJump /\ ~(s.position[2] < MIN_FALL_Y),
     lastSafePosition |-> s.lastSafePosition,
     needsGroundSnap |-> s.needsGroundSnap,
     computed |-> s.position,
     fell |-> s.position[2] < MIN_FALL_Y,
     jumped |-> s.jumped,
     landed |-> s.landed,
     groundHit |-> s.groundHit,
     beforeGround |-> s.beforeGround,
     deep |-> s.deep, shallow |-> s.shallow, beforeFinal |-> s.beforeFinal,
     pushed |-> s.pushed, beforePushback |-> s.beforePushback,
     moved |-> s.moved]

\* Variant of StartPosition that starts from the rendered camera position.
StartPositionRendered(physics, rendered) == rendered
\* Line 245: update() starts from this.position; the rendered position of
\* the camera controller it is handed is not read.
StartPosition(physics, rendered) == physics

\* update(deltaTime, cameraController, input) on the current state, with the
\* object registry objs and a camera controller whose rendered position is
\* `rendered'.
UpdateOn(objs, deltaTime, input, rendered) ==
    SafetyNet(
        Pushback(
            Final(
                Ground(
                    Vertical(deltaTime, input,
                             Horizontal(meshes, objs,
                                        StartPosition(position, rendered),
                                        direction, input, deltaTime))),
                deltaTime),
            deltaTime))
UpdateFrom(deltaTime, input, rendered) == UpdateOn(objectMeshes, deltaTime, input, rendered)

\* The whole of update(deltaTime, cameraController, input) on the current
\* state.
PhysicsUpdate(deltaTime, input) == UpdateFrom(deltaTime, input, cameraPosition)

\* ------------------------------------------------------------------------
\* CameraController.setPosition
\* ------------------------------------------------------------------------
positionSmoothingFactor == 3         \* percent (0.03)
\* Variant of setPosition that eases toward p in snap mode too.
setPositionSmoothed(rendered, initialized, p, useSmoothing) ==
    IF ~initialized THEN p
    ELSE Add(rendered, MulDiv(Sub(p, rendered), positionSmoothingFactor, 100))
\* The rendered position after setPosition(p, useSmoothing).
setPosition(rendered, initialized, p, useSmoothing) ==
    IF ~initialized \/ ~useSmoothing THEN p
    ELSE Add(rendered, MulDiv(Sub(p, rendered), positionSmoothingFactor, 100))

\* ------------------------------------------------------------------------
\* PlayerPhysics.snapToGroundFrom
\* ------------------------------------------------------------------------
\* Variant of Snap that reports the ground but keeps the height.
SnapKeepsHeight(p, groundCheck) ==
    [found |-> groundCheck.hit, snapped |-> p,
     groundY |-> IF groundCheck.hit THEN groundCheck.point[2] ELSE 0]
Snap(p, groundCheck) ==
    IF groundCheck.hit
    THEN [found |-> TRUE, snapped |-> SetY(p, groundCheck.point[2] + PLAYER_EYE_HEIGHT),
          groundY |-> groundCheck.point[2]]
    ELSE [found |-> FALSE, snapped |-> p, groundY |-> 0]
snapToGroundFrom(p) == Snap(p, findGround(meshes, p, GroundSearchExtended))

\* Whether the player box at p intersects some registered object OBB.
PlayerIntersects(p) == Collides(objectMeshes, p)

\* ------------------------------------------------------------------------
\* Zone manifests
\* ------------------------------------------------------------------------
NoZone == "none"         \* currentZoneId = null
\* An asset of a manifest: the mesh of its 'low' object, its role, and the
\* mesh of its 'high' object ("none" when the asset has no such level).
Asset(mesh, isRoom, high) ==
    [id |-> mesh, collision |-> TRUE, isRoom |-> isRoom, high |-> high]
\* The registered manifests: the assets in manifest order, the neighbours
\* and the spawn position.
Manifests ==
    [main  |-> [assets |-> <<Asset("floor", TRUE, "none"), Asset("crate", FALSE, "none")>>,
                neighbors |-> <<"annex">>,
                initialPosition |-> <<Cm(0), Cm(300), Cm(0)>>],
     annex |-> [assets |-> <<Asset("tile", TRUE, "none")>>,
                neighbors |-> <<>>,
                initialPosition |-> <<Cm(100), Cm(300), Cm(100)>>],
     depot |-> [assets |-> <<Asset("beam", FALSE, "beamHi"), Asset("deck", TRUE, "deckHi"),
                             Asset("shelf", TRUE, "shelfHi")>>,
                neighbors |-> <<>>,
                initialPosition |-> <<Cm(0), Cm(300), Cm(0)>>]]
ZoneIds == DOMAIN Manifests

\* ------------------------------------------------------------------------
\* Actions
\* ------------------------------------------------------------------------
\* Construction of CameraController and PlayerPhysics, with the meshes of
\* one zone registered.
Construct(rooms, objects, dir) ==
    /\ meshes = rooms
    /\ objectMeshes = [i \in 1..Len(objects) |->
                          [mesh |-> objects[i], position |-> MeshData(objects[i]).position,
                           obb |-> createOBBFromMesh(objects[i],
                                                     MeshData(objects[i]).position)]]
    /\ position = <<0, PLAYER_EYE_HEIGHT, 0>>
    /\ velocity = Zero3
    /\ pushbackVelocity = Zero3
    /\ isOnGround = FALSE
    /\ lastSafePosition = <<>>
    /\ needsGroundSnap = FALSE
    /\ canJump = FALSE
    /\ direction = dir
    /\ cameraPosition = <<0, PLAYER_EYE_HEIGHT, 0>>
    /\ targetPosition = <<0, PLAYER_EYE_HEIGHT, 0>>
    /\ positionInitialized = TRUE
    /\ frames = 0
    /\ teleports = 0
    /\ zones = [z \in ZoneIds |-> [objects |-> <<>>, loaded |-> FALSE, loading |-> FALSE,
                                   lodLevel |-> "low"]]
    /\ currentZoneId = NoZone
    /\ isPhysicsReady = FALSE
    /\ tasks = <<>>
    /\ last = [op |-> "init",
               clear |-> \A i \in 1..Len(objects) :
                   ~intersectsOBB(createPlayerOBB(<<0, PLAYER_EYE_HEIGHT, 0>>),
                                  createOBBFromMesh(objects[i],
                                                    MeshData(objects[i]).position))]

Init == \E scene \in Scenes, dir \in Directions : Construct(scene.rooms, scene.objects, dir)

\* The stored OBBs after a frame: every sub-step that got past the base case
\* of slideCollision called checkObjectCollisions, which refreshes them; a
\* frame with no such sub-step leaves them as they were.
Refreshed(objs, queryingSteps) ==
    IF queryingSteps > 0 THEN updateObjectOBBs(objs) ELSE objs

\* The writes of update() and of NavigationSystem.update after it: the
\* camera is written in smoothed mode.
Commit(deltaTime, input, r) ==
    /\ frames' = frames + 1
    /\ position' = r.position
    /\ velocity' = r.velocity
    /\ pushbackVelocity' = r.pushbackVelocity
    /\ isOnGround' = r.isOnGround
    /\ canJump' = r.canJump
    /\ lastSafePosition' = r.lastSafePosition
    /\ needsGroundSnap' = r.needsGroundSnap
    /\ objectMeshes' = Refreshed(objectMeshes, r.moved.steps - r.moved.skipped)
    /\ targetPosition' = r.position
    /\ cameraPosition' = setPosition(cameraPosition, positionInitialized, r.position, TRUE)
    /\ positionInitialized' = TRUE
    /\ last' = [op |-> "update", clear |-> last.clear, deltaTime |-> deltaTime,
                input |-> input, from |-> position, fromVelocity |-> velocity,
                wasOnGround |-> isOnGround, wasSafe |-> lastSafePosition,
                wasSnap |-> needsGroundSnap, rendered |-> cameraPosition,
                computed |-> r.computed, fell |-> r.fell,
                jumped |-> r.jumped, landed |-> r.landed, groundHit |-> r.groundHit,
                beforeGround |-> r.beforeGround,
                deep |-> r.deep, shallow |-> r.shallow, beforeFinal |-> r.beforeFinal,
                pushed |-> r.pushed, beforePushback |-> r.beforePushback,
                wasPushback |-> pushbackVelocity,
                afterHorizontal |-> r.moved.position, levels |-> r.moved.levels,
                steps |-> r.moved.steps, skipped |-> r.moved.skipped,
                objectHit |-> r.moved.objectHit,
                teleport |-> IF last.op = "teleport" THEN <<last>> ELSE <<>>,
                staleBefore |-> objectMeshes # updateObjectOBBs(objectMeshes)]
    /\ UNCHANGED <<meshes, direction, teleports>>

\* NavigationSystem.update(deltaTime): PlayerPhysics.update, then the camera.
Update(deltaTime, input) ==
    /\ frames < MaxFrames
    /\ Commit(deltaTime, input, PhysicsUpdate(deltaTime, input))
    /\ UNCHANGED Streaming

\* NavigationSystem.teleport(target): snapToGroundFrom, the camera is
\* snapped, then PlayerPhysics.teleport.  rooms and objs are the registries
\* at the time of the call.
Arrive(target, s, rooms, objs) ==
    /\ teleports' = teleports + 1
    /\ position' = s.snapped
    /\ velocity' = Zero3
    /\ pushbackVelocity' = Zero3
    /\ isOnGround' = FALSE
    /\ needsGroundSnap' = ~s.found
    /\ lastSafePosition' = IF s.found THEN <<s.snapped>> ELSE lastSafePosition
    /\ targetPosition' = s.snapped
    /\ cameraPosition' = setPosition(cameraPosition, positionInitialized, s.snapped, FALSE)
    /\ positionInitialized' = TRUE
    /\ last' = [op |-> "teleport", clear |-> ~Collides(objs, s.snapped),
                target |-> target, found |-> s.found, groundY |-> s.groundY,
                foundDefault |-> findGround(rooms, target, GroundSearchDefault).hit]
    /\ UNCHANGED <<canJump, direction, frames>>

Teleport(target) ==
    /\ teleports < MaxTeleports
    /\ Arrive(target, snapToGroundFrom(target), meshes, objectMeshes)
    /\ UNCHANGED <<meshes, objectMeshes, Streaming>>

Next ==
    \/ \E deltaTime \in DeltaTimes, input \in Inputs : Update(deltaTime, input)
    \/ \E target \in TeleportTargets : Teleport(target)

Spec == Init /\ [][Next]_vars

\* ------------------------------------------------------------------------
\* Direct calls.  slideCollision, findGround and testOBBvsOBB are functions
\* of their arguments and of the registries, so each behaviour makes one
\* call on drawn arguments; last records the call and what it returned.
\* ------------------------------------------------------------------------
Others == <<meshes, objectMeshes, position, velocity, pushbackVelocity, isOnGround,
            lastSafePosition, needsGroundSnap, canJump, direction, cameraPosition,
            targetPosition, positionInitialized, frames, teleports>>

\* Positions in front of the objects and in the wall corner; step velocities
\* of zero length, below the base-case threshold, and of half a step or a
\* whole step along and across the headings.
SlidePositions ==
    {<<0, PLAYER_EYE_HEIGHT, 0>>, <<0, PLAYER_EYE_HEIGHT, -Cm(5)>>,
     <<Cm(85), PLAYER_EYE_HEIGHT, -Cm(85)>>, <<Cm(88), PLAYER_EYE_HEIGHT, -Cm(88)>>}
SlideVelocities ==
    {Zero3, <<0, 0, -Cm(1) \div 2>>, <<0, 0, -Cm(5)>>, <<Cm(5), 0, 0>>,
     <<Cm(4), 0, -Cm(3)>>, <<Cm(3), 0, -Cm(4)>>}
\* The time of a whole sub-step (0.05 m at PLAYER_SPEED)
StepTime == (maxStepDistance * Micro) \div PLAYER_SPEED

\* slideCollision(p, v, StepTime) with the default maxRecursion
Slide(p, v) ==
    /\ last.op = "init"
    /\ last' = [op |-> "slide", position |-> p, velocity |-> v,
                result |-> slideCollision(meshes, objectMeshes, p, v, StepTime, 3)]
    /\ UNCHANGED <<Others, Streaming>>
\* The zones, and one with a slot narrower than the player between two walls.
SlideScenes == Scenes \cup {[rooms |-> <<"floor", "slotN", "slotS">>, objects |-> <<>>]}
InitSlide == \E scene \in SlideScenes : Construct(scene.rooms, scene.objects, <<0, 0, -UnitLen>>)
NextSlide == \E p \in SlidePositions, v \in SlideVelocities : Slide(p, v)
SpecSlide == InitSlide /\ [][NextSlide]_vars

\* Room registries with thick meshes above thin ones, and query points on a
\* grid (centimetres) over them.
GroundScenes ==
    {<<"floor", "table">>, <<"table", "floor">>, <<"tile", "pit", "deck">>,
     <<"floor", "shelf">>, <<"floor">>, <<>>}
GroundPositions ==
    {<<Cm(x), Cm(y), 0>> : x \in {-150, -50, 0, 50, 300, 500}, y \in {50, 160, 500, 1050, 1200}}
GroundDistances == {GroundSearchDefault, GroundSearchExtended}
InitGround == \E rooms \in GroundScenes : Construct(rooms, <<>>, <<0, 0, -UnitLen>>)
\* findGround(p, maxDistance)
Probe(p, maxDistance) ==
    /\ last.op = "init"
    /\ last' = [op |-> "findGround", position |-> p, maxDistance |-> maxDistance,
                intersections |-> raycast(meshes, p, Down),
                result |-> findGround(meshes, p, maxDistance)]
    /\ UNCHANGED <<Others, Streaming>>
NextGround == \E p \in GroundPositions, maxDistance \in GroundDistances : Probe(p, maxDistance)
SpecGround == InitGround /\ [][NextGround]_vars

\* Boxes: axis-aligned, the axes fromPlayerPosition gives a player heading
\* +x (right, corrected up, forward), turned about z by a 3-4-5 angle, and
\* two bases that are oblique to every world axis; cubes and rods.
Orientations ==
    {<<<<1000, 0, 0>>, <<0, 1000, 0>>, <<0, 0, 1000>>>>,
     <<<<0, 0, 1000>>, <<0, -1000, 0>>, <<1000, 0, 0>>>>,
     <<<<600, 800, 0>>, <<-800, 600, 0>>, <<0, 0, 1000>>>>,
     <<<<0, 600, 800>>, <<707, -566, 424>>, <<707, 566, -424>>>>,
     <<<<333, 667, 667>>, <<667, 333, -667>>, <<667, -667, 333>>>>}
BoxCenters ==
    {Zero3, <<Cm(150), 0, 0>>, <<0, -Cm(16), Cm(12)>>, <<Cm(50), Cm(50), 0>>}
BoxHalfExtents == {<<Cm(50), Cm(50), Cm(50)>>, <<Cm(100), Cm(5), Cm(5)>>}
Boxes == {OBB(c, h, o) : c \in BoxCenters, h \in BoxHalfExtents, o \in Orientations}
InitIdle == Construct(<<>>, <<>>, <<0, 0, -UnitLen>>)
\* OBB.testOBBvsOBB(a, b)
Sat(a, b) ==
    /\ last.op = "init"
    /\ last' = [op |-> "sat", a |-> a, b |-> b, result |-> testOBBvsOBB(a, b)]
    /\ UNCHANGED <<Others, Streaming>>
NextOBB == \E a \in {x \in Boxes : x.center = Zero3}, b \in Boxes : Sat(a, b)
SpecOBB == InitIdle /\ [][NextOBB]_vars

\* ------------------------------------------------------------------------
\* Properties
\* ------------------------------------------------------------------------
ForwardOnly(input) ==
    input.moveForward /\ ~input.moveBackward /\ ~input.moveLeft /\ ~input.moveRight

\* C1: after every update() of a run that started (or last teleported) at a
\* position intersecting no registered object, the player box intersects
\* no registered object.
C1_NonPenetration ==
    (last.op = "update" /\ last.clear) => ~PlayerIntersects(position)

\* C2: after every update() the player's y is at least MIN_FALL_Y.
C2_AboveMinFallY ==
    last.op = "update" => position[2] >= MIN_FALL_Y

\* C3: when update() computes a position below MIN_FALL_Y, the position it
\* leaves is the recorded last-safe position if there is one and otherwise
\* the computed position with y = MIN_FALL_Y; velocity and pushback velocity
\* are zero, isOnGround is false and jump is disarmed.
C3_SafetyNet ==
    (last.op = "update" /\ last.computed[2] < MIN_FALL_Y) =>
        /\ position = (IF lastSafePosition # <<>> THEN lastSafePosition[1]
                       ELSE SetY(last.computed, MIN_FALL_Y))
        /\ velocity = Zero3
        /\ pushbackVelocity = Zero3
        /\ ~isOnGround
        /\ ~canJump
\* A fall with a last-safe position on record, restored to it.
C3_Restored ==
    /\ last.op = "update"
    /\ last.computed[2] < MIN_FALL_Y
    /\ lastSafePosition # <<>>
    /\ lastSafePosition[1] # SetY(last.computed, MIN_FALL_Y)
    /\ position = lastSafePosition[1]

\* C4: a frame with no movement flag and no jump that starts with
\* isOnGround true and zero vertical velocity over a registered thin floor
\* leaves y as it was and isOnGround true.
C4_GroundedRest ==
    (/\ last.op = "update"
     /\ last.wasOnGround
     /\ last.fromVelocity[2] = 0
     /\ NoMovement(last.input)
     /\ ~last.input.jump
     /\ findGround(meshes, last.from, GroundSearchDefault).hit)
    => (position[2] = last.from[2] /\ isOnGround)
\* Such a frame, after the frame that landed the player.
C4_RestedTwice ==
    /\ last.op = "update"
    /\ frames = MaxFrames
    /\ last.wasOnGround
    /\ last.fromVelocity[2] = 0
    /\ NoMovement(last.input)
    /\ ~last.input.jump
    /\ findGround(meshes, last.from, GroundSearchDefault).hit
    /\ position[2] = last.from[2]
    /\ isOnGround

\* C5: the first update() after a teleport to a target with ground within
\* the extended search distance but not within the default one leaves the
\* player at y = ground.y + PLAYER_EYE_HEIGHT with zero velocity.
C5_SnapAfterTeleport ==
    (/\ last.op = "update"
     /\ last.teleport # <<>>
     /\ ~last.teleport[1].foundDefault
     /\ findGround(meshes, last.teleport[1].target, GroundSearchExtended).hit)
    => /\ position[2] = findGround(meshes, last.teleport[1].target,
                                   GroundSearchExtended).point[2] + PLAYER_EYE_HEIGHT
       /\ velocity = Zero3
\* The update after a teleport high above the floor.
C5_HighTeleport ==
    /\ last.op = "update"
    /\ last.teleport # <<>>
    /\ ~last.teleport[1].foundDefault
    /\ findGround(meshes, last.teleport[1].target, GroundSearchExtended).hit
    /\ last.teleport[1].target[2] - position[2] > GroundSearchDefault
    /\ position[2] = last.teleport[1].groundY + PLAYER_EYE_HEIGHT

\* C6: slideCollision called with maxRecursion 3 goes past the base case in
\* at most 3 nested invocations, and for a zero-length velocity returns the
\* input position without any collision query.
C6_SlideDepth ==
    last.op = "slide" =>
        /\ last.result.levels <= 3
        /\ (last.velocity = Zero3 =>
                /\ last.result.position = last.position
                /\ last.result.levels = 0
                /\ ~last.result.queried)
\* A slide that used all three levels.
C6_ThreeLevels == last.op = "slide" /\ last.result.levels = 3

\* C7: when a frame moves the player straight along -z toward a registered
\* object whose box spans the player's x and y and whose near face lies
\* ahead of the player, the resulting z is not beyond the object's far face.
Ahead(obb) ==
    /\ Abs(last.from[1] - obb.center[1]) <= obb.halfSize[1] + PLAYER_RADIUS
    /\ Abs(createPlayerOBB(last.from).center[2] - obb.center[2])
           <= obb.halfSize[2] + PLAYER_HEIGHT \div 2
    /\ last.from[3] - PLAYER_RADIUS > obb.center[3] + obb.halfSize[3]
C7_NoTunnelling ==
    (/\ last.op = "update"
     /\ last.clear
     /\ direction = <<0, 0, -UnitLen>>
     /\ ForwardOnly(last.input))
    => \A i \in 1..Len(objectMeshes) :
           Ahead(objectMeshes[i].obb)
               => position[3] >= objectMeshes[i].obb.center[3] - objectMeshes[i].obb.halfSize[3]

\* C8: the head-on scenario: the player at (0, 1.6, 0) facing -z moves
\* forward for dt = 0.1 against the object centred at (0, 1, -0.5).
HeadOn ==
    /\ last.op = "update"
    /\ last.deltaTime = MaxPhysicsDelta
    /\ last.from = <<0, PLAYER_EYE_HEIGHT, 0>>
    /\ direction = <<0, 0, -UnitLen>>
    /\ ForwardOnly(last.input)
    /\ Len(objectMeshes) = 1
    /\ objectMeshes[1].obb.center = <<0, Cm(100), -Cm(50)>>
\* C8 (as stated): in the head-on scenario the frame's resolved movement
\* has a nonzero sideways component.
C8_LateralSlide ==
    HeadOn => (last.afterHorizontal[1] # last.from[1] \/ position[1] # last.from[1])
\* C8 (amended): in the head-on scenario the object is hit and the frame's
\* resolved movement has no sideways component: x is unchanged and the
\* player ends short of the object's near face.
C8_NoLateralSlide ==
    HeadOn =>
        /\ last.objectHit
        /\ last.afterHorizontal[1] = last.from[1]
        /\ position[1] = last.from[1]
        /\ position[3] - PLAYER_RADIUS
               > objectMeshes[1].obb.center[3] + objectMeshes[1].obb.halfSize[3]
\* The head-on frame, resolved against the object.
C8_HeadOnHit ==
    HeadOn /\ last.objectHit /\ position[3] < last.from[3]

\* C9: when the nearest surface below the query position is on a mesh
\* thicker than MAX_GROUND_THICKNESS and a thin surface lies beneath it
\* within the search distance, findGround reports the nearest such thin
\* surface point; and no reported hit is on a thick mesh.
ThinMesh(hit) == getObjectHeight(hit.object) <= MAX_GROUND_THICKNESS
ThinBelow(hits, maxDistance) ==
    {k \in 2..Len(hits) : ThinMesh(hits[k]) /\ hits[k].distance <= maxDistance}
C9_ThickThenThin ==
    last.op = "findGround" =>
        /\ (last.result.hit => ThinMesh(last.result))
        /\ (/\ last.intersections # <<>>
            /\ ~ThinMesh(last.intersections[1])
            /\ last.intersections[1].distance <= last.maxDistance
            /\ ThinBelow(last.intersections, last.maxDistance) # {})
           => /\ last.result.hit
              /\ last.result.point =
                     last.intersections[
                         CHOOSE k \in ThinBelow(last.intersections, last.maxDistance) :
                             \A j \in ThinBelow(last.intersections, last.maxDistance) : k <= j
                     ].point

\* C10: two boxes whose projections are disjoint on one of the candidate
\* axes (the six local axes and the cross products that are not degenerate)
\* are reported as not colliding.
DisjointOn(a, b, axis) ==
    \/ projectOntoAxis(a, axis).max < projectOntoAxis(b, axis).min
    \/ projectOntoAxis(b, axis).max < projectOntoAxis(a, axis).min
C10_SeparatedNotColliding ==
    last.op = "sat" =>
        ((\E k \in 1..Len(CandidateAxes(last.a, last.b)) :
              DisjointOn(last.a, last.b, CandidateAxes(last.a, last.b)[k]))
         => ~last.result.colliding)
\* Two boxes that only a cross-product axis separates.
C10_EdgeSeparated ==
    /\ last.op = "sat"
    /\ ~last.result.colliding
    /\ \A k \in 1..6 : ~DisjointOn(last.a, last.b, CandidateAxes(last.a, last.b)[k])
    /\ \E k \in 7..Len(CandidateAxes(last.a, last.b)) :
           DisjointOn(last.a, last.b, CandidateAxes(last.a, last.b)[k])

\* C11: two boxes with the same centre are reported as colliding, with a
\* penetration depth equal to the smallest, over the tested axes, of the sum
\* of the two projected half extents, and a normal of unit length (to the
\* rounding of the arithmetic).
HalfExtentSum(a, b, axis) ==
    ((projectOntoAxis(a, axis).max - projectOntoAxis(a, axis).min)
        + (projectOntoAxis(b, axis).max - projectOntoAxis(b, axis).min)) \div 2
C11_SameCentre ==
    (last.op = "sat" /\ last.a.center = last.b.center) =>
        /\ last.result.colliding
        /\ \E k \in 1..Len(CandidateAxes(last.a, last.b)) :
               last.result.penetrationDepth
                   = HalfExtentSum(last.a, last.b, CandidateAxes(last.a, last.b)[k])
        /\ \A k \in 1..Len(CandidateAxes(last.a, last.b)) :
               last.result.penetrationDepth
                   <= HalfExtentSum(last.a, last.b, CandidateAxes(last.a, last.b)[k])
        /\ Abs(Length(last.result.normal) - UnitLen) <= UnitLen \div 500
\* Two differently turned boxes with the same centre, the smallest sum on a
\* cross-product axis or a face axis of the second box.
C11_TurnedSameCentre ==
    /\ last.op = "sat"
    /\ last.a.center = last.b.center
    /\ last.a.axes # last.b.axes
    /\ last.result.colliding
    /\ last.result.penetrationDepth > 0
    /\ last.result.normal \notin {last.a.axes[1], last.a.axes[2], last.a.axes[3]}

\* ------------------------------------------------------------------------
\* CollisionSystem: registration.  The operations on the two registries and
\* the queries, from empty registries; last.log is the sequence of the
\* register and unregister calls made so far.
\* ------------------------------------------------------------------------
Player == <<position, velocity, pushbackVelocity, isOnGround, lastSafePosition,
            needsGroundSnap, canJump, direction, cameraPosition, targetPosition,
            positionInitialized, frames, teleports>>
MaxOps == 4

\* Array.indexOf / the place of a key in the Map: 0 when absent.
IndexOfMesh(ms, m) ==
    IF \E i \in 1..Len(ms) : ms[i] = m
    THEN CHOOSE i \in 1..Len(ms) : ms[i] = m /\ \A j \in 1..(i - 1) : ms[j] # m
    ELSE 0
RemoveAt(seq, i) == SubSeq(seq, 1, i - 1) \o SubSeq(seq, i + 1, Len(seq))
Keys(objs) == [i \in 1..Len(objs) |-> objs[i].mesh]

\* registerMesh: this.meshes.push(mesh)
registerMesh(ms, m) == Append(ms, m)
\* unregisterMesh: splice at indexOf(mesh) when it is there
unregisterMesh(ms, m) ==
    IF IndexOfMesh(ms, m) > 0 THEN RemoveAt(ms, IndexOfMesh(ms, m)) ELSE ms
\* A mesh without geometry is not registered as an object.
HasGeometry(m) == m # "ghost"
\* registerObjectMesh: Map.set(mesh, createOBBFromMesh(mesh)); setting a key
\* that is present replaces its value and keeps its place.
registerObjectMesh(objs, m, meshPosition) ==
    IF ~HasGeometry(m) THEN objs
    ELSE IF IndexOfMesh(Keys(objs), m) > 0
    THEN [objs EXCEPT ![IndexOfMesh(Keys(objs), m)].obb = createOBBFromMesh(m, meshPosition)]
    ELSE Append(objs, [mesh |-> m, position |-> meshPosition,
                       obb |-> createOBBFromMesh(m, meshPosition)])
\* Variant of unregisterObjectMesh that deletes nothing.
unregisterObjectMeshKeeps(objs, m) == objs
\* unregisterObjectMesh: Map.delete(mesh)
unregisterObjectMesh(objs, m) ==
    IF IndexOfMesh(Keys(objs), m) > 0 THEN RemoveAt(objs, IndexOfMesh(Keys(objs), m)) ELSE objs

ObjectIds == {"crate", "beam", "ghost"}
RoomIds == {"floor", "tile", "table"}
\* Where a mesh can stand: its place in the zone, or 3 m to the side.
MeshPositions(m) ==
    IF m = "crate" THEN {MeshData(m).position, Add(MeshData(m).position, <<Cm(300), 0, 0>>)}
    ELSE IF m = "beam" THEN {MeshData(m).position}
    ELSE {Zero3}
\* mesh.position of m now: that of its entry when m is registered.
PositionsNow(objs, m) ==
    IF IndexOfMesh(Keys(objs), m) > 0 THEN {objs[IndexOfMesh(Keys(objs), m)].position}
    ELSE MeshPositions(m)
\* Player positions probed against the objects, and rays cast into the room.
ProbePositions ==
    {<<0, PLAYER_EYE_HEIGHT, -Cm(50)>>, <<Cm(100), PLAYER_EYE_HEIGHT, -Cm(50)>>,
     <<Cm(300), PLAYER_EYE_HEIGHT, -Cm(50)>>, <<0, PLAYER_EYE_HEIGHT, Cm(500)>>}
Rays ==
    {[origin |-> <<0, Cm(500), -Cm(50)>>, direction |-> Down],
     [origin |-> <<Cm(150), Cm(500), 0>>, direction |-> Down],
     [origin |-> <<0, Cm(100), Cm(300)>>, direction |-> <<0, 0, -UnitLen>>]}

Log == IF "log" \in DOMAIN last THEN last.log ELSE <<>>
\* What every operation records: the call, the object registry before it,
\* the log, and the call before it.
Record(op, m, log, objs) ==
    [op |-> op, mesh |-> m, log |-> log, before |-> objectMeshes,
     changed |-> objs # objectMeshes,
     prevOp |-> last.op,
     prevMesh |-> IF "mesh" \in DOMAIN last THEN last.mesh ELSE "",
     prevCount |-> IF "before" \in DOMAIN last THEN Len(last.before) ELSE 0,
     prevChanged |-> IF "changed" \in DOMAIN last THEN last.changed ELSE FALSE]
Logged(op, m) == Append(Log, [op |-> op, mesh |-> m])

RegisterMesh(m) ==
    /\ Len(Log) < MaxOps
    /\ meshes' = registerMesh(meshes, m)
    /\ last' = Record("registerMesh", m, Logged("registerMesh", m), objectMeshes)
    /\ UNCHANGED <<objectMeshes, Player, Streaming>>
UnregisterMesh(m) ==
    /\ Len(Log) < MaxOps
    /\ meshes' = unregisterMesh(meshes, m)
    /\ last' = Record("unregisterMesh", m, Logged("unregisterMesh", m), objectMeshes)
    /\ UNCHANGED <<objectMeshes, Player, Streaming>>
RegisterObjectMesh(m, meshPosition) ==
    /\ Len(Log) < MaxOps
    /\ meshPosition \in PositionsNow(objectMeshes, m)
    /\ objectMeshes' = registerObjectMesh(objectMeshes, m, meshPosition)
    /\ last' = Record("registerObjectMesh", m, Logged("registerObjectMesh", m),
                      registerObjectMesh(objectMeshes, m, meshPosition))
    /\ UNCHANGED <<meshes, Player, Streaming>>
UnregisterObjectMesh(m) ==
    /\ Len(Log) < MaxOps
    /\ objectMeshes' = unregisterObjectMesh(objectMeshes, m)
    /\ last' = Record("unregisterObjectMesh", m, Logged("unregisterObjectMesh", m),
                      unregisterObjectMesh(objectMeshes, m))
    /\ UNCHANGED <<meshes, Player, Streaming>>
\* The scene moves a registered mesh; its stored OBB is left as it is.
MoveMesh(i, meshPosition) ==
    /\ meshPosition \in MeshPositions(objectMeshes[i].mesh)
    /\ meshPosition # objectMeshes[i].position
    /\ objectMeshes' = [objectMeshes EXCEPT ![i].position = meshPosition]
    /\ last' = Record("move", objectMeshes[i].mesh, Log,
                      [objectMeshes EXCEPT ![i].position = meshPosition])
    /\ UNCHANGED <<meshes, Player, Streaming>>
UpdateObjectOBBs ==
    /\ objectMeshes' = updateObjectOBBs(objectMeshes)
    /\ last' = Record("updateObjectOBBs", "", Log, updateObjectOBBs(objectMeshes))
    /\ UNCHANGED <<meshes, Player, Streaming>>
\* checkObjectCollisions(createPlayerOBB(p)): the OBBs are refreshed first.
CheckObjectCollisions(p) ==
    /\ objectMeshes' = updateObjectOBBs(objectMeshes)
    /\ last' = [Record("checkObjectCollisions", "", Log, updateObjectOBBs(objectMeshes))
                   EXCEPT !.mesh = ""] @@
               [probe |-> p,
                result |-> checkObjectCollisions(objectMeshes, createPlayerOBB(p))]
    /\ UNCHANGED <<meshes, Player, Streaming>>
Raycast(ray) ==
    /\ last' = Record("raycast", "", Log, objectMeshes) @@
               [ray |-> ray, result |-> raycast(meshes, ray.origin, ray.direction)]
    /\ UNCHANGED <<meshes, objectMeshes, Player, Streaming>>

NextObjects ==
    \/ \E m \in ObjectIds : \E p \in MeshPositions(m) : RegisterObjectMesh(m, p)
    \/ \E m \in ObjectIds : UnregisterObjectMesh(m)
    \/ \E i \in 1..Len(objectMeshes) :
           \E p \in MeshPositions(objectMeshes[i].mesh) : MoveMesh(i, p)
    \/ UpdateObjectOBBs
    \/ \E p \in ProbePositions : CheckObjectCollisions(p)
SpecObjects == InitIdle /\ [][NextObjects]_vars

\* The room registry, with two objects registered in the path of the rays.
InitRooms == Construct(<<>>, <<"crate", "beam">>, <<0, 0, -UnitLen>>)
NextRooms ==
    \/ \E m \in RoomIds : RegisterMesh(m)
    \/ \E m \in RoomIds : UnregisterMesh(m)
    \/ \E ray \in Rays : Raycast(ray)
SpecRooms == InitRooms /\ [][NextRooms]_vars

\* Whether, by the calls of log alone, mesh m is in the object registry: the
\* last call about m registered it.
LastAbout(log, m) ==
    {i \in 1..Len(log) :
        /\ log[i].mesh = m
        /\ log[i].op \in {"registerObjectMesh", "unregisterObjectMesh"}
        /\ \A j \in (i + 1)..Len(log) :
               ~(log[j].mesh = m /\ log[j].op \in {"registerObjectMesh", "unregisterObjectMesh"})}
RegisteredBy(log, m) ==
    HasGeometry(m) /\ \E i \in LastAbout(log, m) : log[i].op = "registerObjectMesh"
\* registerObjectMesh(m) followed at once by unregisterObjectMesh(m)
RoundTrip ==
    /\ last.op = "unregisterObjectMesh"
    /\ last.prevOp = "registerObjectMesh"
    /\ last.prevMesh = last.mesh
NotReported(m) ==
    /\ \A i \in 1..Len(objectMeshes) : objectMeshes[i].mesh # m
    /\ \A p \in ProbePositions :
           checkObjectCollisions(objectMeshes, createPlayerOBB(p)).found
               => checkObjectCollisions(objectMeshes, createPlayerOBB(p)).mesh # m

\* C12 (as stated): after registerObjectMesh(m) immediately followed by
\* unregisterObjectMesh(m), from any state of the registry, the number of
\* registered object meshes is what it was before the pair and m is not
\* reported by checkObjectCollisions.
C12_RoundTrip ==
    RoundTrip => (Len(objectMeshes) = last.prevCount /\ NotReported(last.mesh))
\* C12 (amended): the count is what it was before the pair when m was not
\* registered before the pair, and one less when it was; in both cases m is
\* not reported by checkObjectCollisions.
C12_RoundTripFresh ==
    RoundTrip =>
        /\ Len(objectMeshes)
               = IF RegisteredBy(SubSeq(last.log, 1, Len(last.log) - 2), last.mesh)
                 THEN last.prevCount - 1 ELSE last.prevCount
        /\ NotReported(last.mesh)
\* A pair on a mesh with geometry that was not registered, with another
\* object registered.
C12_FreshPair ==
    /\ RoundTrip
    /\ HasGeometry(last.mesh)
    /\ ~RegisteredBy(SubSeq(last.log, 1, Len(last.log) - 2), last.mesh)
    /\ last.prevCount > 0
    /\ Len(objectMeshes) = last.prevCount

C14_FirstWriteSnaps ==
    (last.op \in {"update", "teleport"} /\ frames + teleports = 1)
        => cameraPosition = targetPosition

\* Rendered camera positions a second run of the same frame may have: the
\* spawn position, and a camera trailing 0.5 m behind and 0.1 m above.
RenderedPositions ==
    {<<0, PLAYER_EYE_HEIGHT, 0>>, <<0, PLAYER_EYE_HEIGHT + Cm(10), Cm(50)>>}

\* What a run of update() leaves in the physics state.
Outcome(r) ==
    <<r.position, r.velocity, r.pushbackVelocity, r.isOnGround, r.canJump,
      r.lastSafePosition, r.needsGroundSnap>>

\* C15: every update() leaves the physics position and flags that a run
\* from the same physics state, registries, orientation and input leaves
\* with any other rendered camera position, and it starts from the position
\* the previous update() or teleport persisted.
C15_CameraNotFedBack ==
    [][(frames' = frames + 1) =>
        /\ last'.from = position
        /\ \A rendered \in RenderedPositions :
               \A r \in {UpdateFrom(last'.deltaTime, last'.input, rendered)} :
                   Outcome(r) = <<position', velocity', pushbackVelocity', isOnGround',
                                  canJump', lastSafePosition', needsGroundSnap'>>]_vars
\* An update() that moved the player while the rendered camera was not at
\* the physics position.
C15_CameraTrailing ==
    /\ last.op = "update"
    /\ last.rendered # last.from
    /\ position # last.from
    /\ cameraPosition # position

\* ------------------------------------------------------------------------
\* Zone streaming: ZoneManager and the callbacks of Canvas.  Every call
\* site passes lodLevel 'low', so loadZone is modelled at that level.  The
\* operators below act on a record w of the fields a step may write:
\* zones, currentZoneId, meshes, objectMeshes, tasks, isPhysicsReady, and
\* arrive, the teleport the step ends with (<<>> when none).  A task is an
\* asynchronous call: kind "transition" is setCurrentZone with the callback
\* of Canvas after it, kind "load" is a loadZone call nobody awaits.
\* ------------------------------------------------------------------------
World ==
    [zones |-> zones, currentZoneId |-> currentZoneId, meshes |-> meshes,
     objectMeshes |-> objectMeshes, tasks |-> tasks,
     isPhysicsReady |-> isPhysicsReady, arrive |-> <<>>, thrown |-> FALSE]

\* An asynchronous call as it starts.  i is the asset its loop is at, n the
\* number of objects upgradeZoneLOD found when it began, old the object it
\* is about to replace.
Task(kind, z, lod, target) ==
    [kind |-> kind, zone |-> z, lod |-> lod, pc |-> "start", i |-> 0, n |-> 0,
     old |-> "none", target |-> target]

\* Variant of registerObjectForCollision that registers every object in the
\* room registry.
registerObjectAsRoom(w, mesh, isRoom) == [w EXCEPT !.meshes = registerMesh(@, mesh)]
\* ZoneManager.registerObjectForCollision: one mesh per loaded object.
registerObjectForCollision(w, mesh, isRoom) ==
    IF isRoom THEN [w EXCEPT !.meshes = registerMesh(@, mesh)]
    ELSE [w EXCEPT !.objectMeshes = registerObjectMesh(@, mesh, MeshData(mesh).position)]

\* ZoneManager.unregisterObjectForCollision
unregisterObjectForCollision(w, mesh, isRoom) ==
    IF isRoom THEN [w EXCEPT !.meshes = unregisterMesh(@, mesh)]
    ELSE [w EXCEPT !.objectMeshes = unregisterObjectMesh(@, mesh)]

\* Variant of AssetIsRoom that reads the role of the asset the object was
\* loaded for.
AssetIsRoomOfObject(z, i, object) ==
    \E k \in 1..Len(Manifests[z].assets) :
        /\ object \in {Manifests[z].assets[k].id, Manifests[z].assets[k].high}
        /\ Manifests[z].assets[k].isRoom
\* unloadZone lines 644-647 and unregisterObjectForCollision line 523:
\* asset = zone.manifest.assets[i], and asset?.isRoom === true.
AssetIsRoom(z, i, object) ==
    i <= Len(Manifests[z].assets) /\ Manifests[z].assets[i].isRoom

\* ZoneManager.unloadZone: the i-th object is unregistered as the i-th
\* asset of the manifest says; then the zone is marked as not loaded.  An
\* empty slot of zone.objects makes object.traverse throw, which ends the
\* call where it is.
RECURSIVE UnregisterFrom(_, _, _)
UnregisterFrom(w, z, i) ==
    IF i > Len(w.zones[z].objects) THEN w
    ELSE IF w.zones[z].objects[i] = "none" THEN [w EXCEPT !.thrown = TRUE]
    ELSE UnregisterFrom(
             unregisterObjectForCollision(w, w.zones[z].objects[i],
                                          AssetIsRoom(z, i, w.zones[z].objects[i])),
             z, i + 1)
Unloaded(w, z) ==
    IF w.thrown THEN w
    ELSE [w EXCEPT !.zones[z].objects = <<>>, !.zones[z].loaded = FALSE,
                   !.zones[z].lodLevel = "low"]
unloadZone(w, z) ==
    IF z \notin ZoneIds THEN w ELSE Unloaded(UnregisterFrom(w, z, 1), z)

\* The callback of Canvas after setCurrentZone resolved: the teleport, then
\* physics is enabled.
Resolved(w, t) ==
    [w EXCEPT !.arrive = <<w.tasks[t].target>>, !.isPhysicsReady = TRUE,
              !.tasks[t].pc = "done"]
\* The callback of Canvas after setCurrentZone threw.
Rejected(w, t) == [w EXCEPT !.isPhysicsReady = FALSE, !.tasks[t].pc = "failed"]
\* The call of task t threw: the callback of Canvas runs for a transition,
\* the error is logged for a load nobody awaits.
Threw(w, t) ==
    IF w.tasks[t].kind = "transition" THEN Rejected([w EXCEPT !.thrown = FALSE], t)
    ELSE [w EXCEPT !.thrown = FALSE, !.tasks[t].pc = "failed"]

RECURSIVE loadZone(_, _, _)
RECURSIVE Preload(_, _, _)
\* setCurrentZone lines 707-715: a loadZone call is started for each
\* neighbour of the zone, and not awaited.
Preload(w, z, n) ==
    IF n > Len(Manifests[z].neighbors) THEN w
    ELSE Preload(
             loadZone([w EXCEPT !.tasks = Append(@, Task("load", Manifests[z].neighbors[n],
                                                         "low", Zero3))],
                      Len(w.tasks) + 1, Manifests[z].neighbors[n]),
             z, n + 1)

\* What follows when the loadZone call of task t returns.
Returned(w, t) ==
    IF w.tasks[t].kind = "transition"
    THEN Resolved(Preload(w, w.tasks[t].zone, 1), t)
    ELSE [w EXCEPT !.tasks[t].pc = "done"]

\* loadZone lines 440-442: the finally block clears the loading flag.
Finally(w, t, z) == Returned([w EXCEPT !.zones[z].loading = FALSE], t)

\* loadZone lines 435-438 after upgradeZoneLOD returned.
Upgraded(w, t, z) ==
    Finally([w EXCEPT !.zones[z].lodLevel = w.tasks[t].lod], t, z)

\* upgradeZoneLOD lines 548-580: the loop is at asset i.  An asset is
\* upgraded when it has the requested level and i is within the objects
\* the zone had when the call began; it is skipped when zone.objects[i] is
\* empty now; otherwise the call waits for loadAsset, holding the object.
RECURSIVE UpgradeFrom(_, _, _, _)
UpgradeFrom(w, t, z, i) ==
    IF i > Len(Manifests[z].assets) \/ i > w.tasks[t].n THEN Upgraded(w, t, z)
    ELSE IF Manifests[z].assets[i].high = "none" THEN UpgradeFrom(w, t, z, i + 1)
    ELSE IF i > Len(w.zones[z].objects) THEN UpgradeFrom(w, t, z, i + 1)
    ELSE IF w.zones[z].objects[i] = "none" THEN UpgradeFrom(w, t, z, i + 1)
    ELSE [w EXCEPT !.tasks[t].pc = "upgrade", !.tasks[t].i = i,
                   !.tasks[t].old = w.zones[z].objects[i]]

\* loadZone lines 427-438 after the low level is loaded: the zone is marked
\* as loaded at 'low', and a higher requested level is upgraded to.
Loaded(w, t, z) ==
    IF w.tasks[t].lod # "low"
    THEN UpgradeFrom([w EXCEPT !.zones[z].loaded = TRUE, !.zones[z].lodLevel = "low",
                               !.tasks[t].n = Len(w.zones[z].objects)],
                     t, z, 1)
    ELSE Finally([w EXCEPT !.zones[z].loaded = TRUE, !.zones[z].lodLevel = "low"], t, z)

\* loadZoneLOD: the loop is at asset i; it waits for loadAsset.
LoadFrom(w, t, z, i) ==
    IF i > Len(Manifests[z].assets) THEN Loaded(w, t, z)
    ELSE [w EXCEPT !.tasks[t].pc = "asset", !.tasks[t].i = i]

\* loadZone lines 425-438 for a zone no load is running for.
Begin(w, t, z) ==
    IF ~w.zones[z].loaded THEN LoadFrom(w, t, z, 1)
    ELSE IF w.tasks[t].lod # w.zones[z].lodLevel /\ w.tasks[t].lod # "low"
    THEN UpgradeFrom([w EXCEPT !.tasks[t].n = Len(w.zones[z].objects)], t, z, 1)
    ELSE Finally(w, t, z)

\* loadZone lines 397-415: the zone is loaded at a higher level and 'low'
\* is requested; it is unloaded and loaded again.
Downgrade(w, t, z) == IF w.thrown THEN Threw(w, t) ELSE loadZone(w, t, z)

\* ZoneManager.loadZone(z, lod) called by task t with the level of the
\* task, up to the first wait.
loadZone(w, t, z) ==
    IF z \notin ZoneIds THEN Threw(w, t)
    ELSE IF w.zones[z].loaded /\ w.zones[z].lodLevel = w.tasks[t].lod THEN Returned(w, t)
    ELSE IF w.zones[z].loaded /\ w.tasks[t].lod = "low"
    THEN Downgrade(unloadZone(w, z), t, z)
    ELSE IF w.zones[z].loading THEN [w EXCEPT !.tasks[t].pc = "wait"]
    ELSE Begin([w EXCEPT !.zones[z].loading = TRUE], t, z)

\* loadZoneLOD lines 458-495 when loadAsset of asset i settled: a loaded
\* object is pushed and registered, a failure is logged; then the next asset.
loadZoneLOD(w, t, z, i, ok) ==
    LoadFrom(
        IF ok
        THEN registerObjectForCollision(
                 [w EXCEPT !.zones[z].objects = Append(@, Manifests[z].assets[i].id)],
                 Manifests[z].assets[i].id, Manifests[z].assets[i].isRoom)
        ELSE w,
        t, z, i + 1)

\* zone.objects[objectIndex] = newObject: an index past the end leaves
\* empty slots before it.
SetAt(objects, i, object) ==
    [k \in 1..(IF i > Len(objects) THEN i ELSE Len(objects)) |->
        IF k = i THEN object ELSE IF k <= Len(objects) THEN objects[k] ELSE "none"]

\* Variant of Swap that registers the new object before the old one is
\* unregistered.
SwapNewFirst(w, z, i, old, asset) ==
    unregisterObjectForCollision(
        registerObjectForCollision(
            [w EXCEPT !.zones[z].objects = SetAt(@, i, asset.high)],
            asset.high, asset.isRoom),
        old, asset.isRoom)
\* upgradeZoneLOD lines 601-626: the old object is unregistered as the
\* asset says, the new one takes its slot and is registered.
Swap(w, z, i, old, asset) ==
    registerObjectForCollision(
        [unregisterObjectForCollision(w, old, asset.isRoom)
            EXCEPT !.zones[z].objects = SetAt(@, i, asset.high)],
        asset.high, asset.isRoom)

\* upgradeZoneLOD lines 577-630 when loadAsset of the higher level of asset
\* i settled: with a new object the swap is made, a failure is logged;
\* then the next asset.
upgradeZoneLOD(w, t, z, i, ok) ==
    UpgradeFrom(IF ok THEN Swap(w, z, i, w.tasks[t].old, Manifests[z].assets[i]) ELSE w,
                t, z, i + 1)

\* ZoneManager.setCurrentZone(z, 'low') called by task t, up to the first
\* wait.
Entered(w, t, z) ==
    IF w.thrown THEN Threw(w, t) ELSE loadZone([w EXCEPT !.currentZoneId = z], t, z)
setCurrentZone(w, t, z) ==
    IF w.currentZoneId = z THEN Resolved(w, t)
    ELSE Entered(unloadZone(w, w.currentZoneId), t, z)

\* The writes of a step that ends in the world w.
Write(w, op, t) ==
    /\ zones' = w.zones
    /\ currentZoneId' = w.currentZoneId
    /\ isPhysicsReady' = w.isPhysicsReady
    /\ tasks' = w.tasks
    /\ meshes' = w.meshes
    /\ objectMeshes' = w.objectMeshes
    /\ IF w.arrive = <<>>
       THEN /\ last' = [op |-> op, clear |-> last.clear, task |-> t]
            /\ UNCHANGED Player
       ELSE Arrive(w.arrive[1],
                   Snap(w.arrive[1], findGround(w.meshes, w.arrive[1], GroundSearchExtended)),
                   w.meshes, w.objectMeshes)

\* The places zone transitions lead to; the vault has no manifest.
Destinations == {"main", "annex", "vault"}
TransitionTarget(z) == IF z \in ZoneIds THEN Manifests[z].initialPosition ELSE Zero3

\* The zone transition callback of Canvas (and, with the same steps,
\* loadInitialZone and rooms): physics is disabled, setCurrentZone is
\* called, and the teleport waits for it.
Transition(z) ==
    /\ Len(tasks) < MaxTasks
    /\ Write(setCurrentZone(
                 [World EXCEPT !.isPhysicsReady = FALSE,
                               !.tasks = Append(@, Task("transition", z, "low",
                                                        TransitionTarget(z)))],
                 Len(tasks) + 1, z),
             "transition", Len(tasks) + 1)

\* loadAsset of task t settles: with an object (ok) or with an error.
AssetLoaded(t, ok) ==
    /\ tasks[t].pc = "asset"
    /\ Write(loadZoneLOD(World, t, tasks[t].zone, tasks[t].i, ok),
             IF ok THEN "asset" ELSE "assetFailed", t)

\* loadZone lines 417-423: the 100 ms poll of a task waiting for another
\* load of its zone finds the loading flag cleared, and returns.
Poll(t) ==
    /\ tasks[t].pc = "wait"
    /\ ~zones[tasks[t].zone].loading
    /\ Write(Returned(World, t), "poll", t)

\* ZoneManager.handleEvent with action load_zone
LoadEvent(z) ==
    /\ Len(tasks) < MaxTasks
    /\ Write(loadZone([World EXCEPT !.tasks = Append(@, Task("load", z, "low", Zero3))],
                      Len(tasks) + 1, z),
             "load", Len(tasks) + 1)

\* ZoneManager.handleEvent with action unload_zone: unloadZone(z) returns,
\* or throws on an empty slot of zone.objects.  The step is recorded with
\* the zone in the place of the task.
Unload(w, z) == Write(w, IF w.thrown THEN "unloadThrew" ELSE "unload", z)
UnloadEvent(z) ==
    /\ zones[z].objects # <<>> \/ zones[z].loaded
    /\ Unload(unloadZone(World, z), z)

\* Canvas.animate lines 559-621: whether this frame runs physics.
physicsEnabled(isPaused) ==
    /\ ~isPaused
    /\ isPhysicsReady
    /\ currentZoneId \in ZoneIds
    /\ zones[currentZoneId].loaded

\* Canvas.animate: a frame.  With physics enabled it calls
\* NavigationSystem.update with the clamped time step; otherwise the
\* player is left alone.
Animate(isPaused, input) ==
    IF physicsEnabled(isPaused)
    THEN /\ frames < MaxFrames
         /\ Commit(MaxPhysicsDelta, input, PhysicsUpdate(MaxPhysicsDelta, input))
         /\ UNCHANGED Streaming
    ELSE /\ last.op # "idle"
         /\ last' = [op |-> "idle", clear |-> last.clear]
         /\ UNCHANGED <<meshes, objectMeshes, Player, Streaming>>

InitZones == Construct(<<>>, <<>>, <<0, 0, -UnitLen>>)
NextZones ==
    \/ \E z \in Destinations : Transition(z)
    \/ \E t \in 1..Len(tasks), ok \in BOOLEAN : AssetLoaded(t, ok)
    \/ \E t \in 1..Len(tasks) : Poll(t)
    \/ \E z \in Destinations \cap ZoneIds : LoadEvent(z)
    \/ \E z \in Destinations \cap ZoneIds : UnloadEvent(z)
    \/ \E isPaused \in BOOLEAN : Animate(isPaused, Input(FALSE, FALSE, FALSE, FALSE, FALSE))
SpecZones == InitZones /\ [][NextZones]_vars

\* Every collidable asset of the active zone is in its registry.
Registered(asset) ==
    IF asset.isRoom THEN IndexOfMesh(meshes, asset.id) > 0
    ELSE \E i \in 1..Len(objectMeshes) : objectMeshes[i].mesh = asset.id
ZoneComplete ==
    /\ currentZoneId \in ZoneIds
    /\ \A i \in 1..Len(Manifests[currentZoneId].assets) :
           Manifests[currentZoneId].assets[i].collision
               => Registered(Manifests[currentZoneId].assets[i])

\* C16: under every interleaving of frames, zone transitions, zone loads
\* (failed asset loads included) and unloads, update() is only invoked
\* while every collidable asset of the active zone is registered.
C16_PhysicsGated == [][(frames' = frames + 1) => ZoneComplete]_vars

\* The meshes of the hits of result that lie at the given distance, in the
\* order of the result.
HitsAt(result, distance) ==
    LET atDistance == SelectSeq(result, LAMBDA h : h.distance = distance)
    IN  [i \in 1..Len(atDistance) |-> atDistance[i].object]
\* The registrations of the room registry that the ray enters at the given
\* distance, in registration order.
RegistrationsAt(ray, distance) ==
    SelectSeq(meshes, LAMBDA m : /\ RayHit(m, ray.origin, ray.direction).hit
                                 /\ RayHit(m, ray.origin, ray.direction).distance = distance)

\* C17: raycast returns hits on meshes of the room registry only, never on
\* a mesh of the object registry, in ascending distance, and the hits of
\* equal distance are in the registration order of their meshes.
C17_RaycastOrder ==
    last.op = "raycast" =>
        /\ \A i \in 1..Len(last.result) :
               /\ IndexOfMesh(meshes, last.result[i].object) > 0
               /\ \A k \in 1..Len(objectMeshes) :
                      objectMeshes[k].mesh # last.result[i].object
               /\ HitsAt(last.result, last.result[i].distance)
                      = RegistrationsAt(last.ray, last.result[i].distance)
        /\ \A i, j \in 1..Len(last.result) :
               i < j => last.result[i].distance <= last.result[j].distance
\* A ray through the crate and the beam of the object registry that enters
\* two room meshes at one distance and a third mesh before them, after an
\* unregistration.
C17_TieAfterUnregister ==
    /\ last.op = "raycast"
    /\ Len(last.result) = 3
    /\ last.result[1].distance < last.result[2].distance
    /\ last.result[2].distance = last.result[3].distance
    /\ last.result[2].object # last.result[3].object
    /\ \E i \in 1..Len(last.log) : last.log[i].op = "unregisterMesh"
    /\ \E k \in 1..Len(objectMeshes) :
           RayHit(objectMeshes[k].mesh, last.ray.origin, last.ray.direction).hit

\* By the calls of log alone: the call that registered mesh m, the first
\* registerObjectMesh(m) after the last unregisterObjectMesh(m) (0 if none).
RegisteredAt(log, m) ==
    LET since == {i \in 1..Len(log) :
                     /\ log[i].mesh = m
                     /\ log[i].op = "registerObjectMesh"
                     /\ \A j \in (i + 1)..Len(log) :
                            ~(log[j].mesh = m /\ log[j].op = "unregisterObjectMesh")}
    IN  IF since = {} THEN 0 ELSE CHOOSE i \in since : \A j \in since : i <= j
\* The registered objects whose box, at the place the mesh is now,
\* intersects the player box at p.
IntersectingAt(p) ==
    {k \in 1..Len(objectMeshes) :
        intersectsOBB(createPlayerOBB(p),
                      createOBBFromMesh(objectMeshes[k].mesh, objectMeshes[k].position))}

\* C18: checkObjectCollisions returns null when no registered object
\* intersects the probe, and otherwise an intersecting object that no other
\* intersecting object was registered before, whatever calls of
\* registerObjectMesh and unregisterObjectMesh produced the registry.
C18_EarliestRegistered ==
    last.op = "checkObjectCollisions" =>
        /\ last.result.found <=> IntersectingAt(last.probe) # {}
        /\ last.result.found =>
               /\ \E k \in IntersectingAt(last.probe) :
                      objectMeshes[k].mesh = last.result.mesh
               /\ \A k \in IntersectingAt(last.probe) :
                      /\ RegisteredAt(last.log, objectMeshes[k].mesh) > 0
                      /\ RegisteredAt(last.log, last.result.mesh)
                             <= RegisteredAt(last.log, objectMeshes[k].mesh)
\* Two registered objects intersect the probe, and the one reported was
\* registered first, then unregistered, and the other registered again.
C18_ReportedAfterReorder ==
    /\ last.op = "checkObjectCollisions"
    /\ last.result.found
    /\ Cardinality(IntersectingAt(last.probe)) = 2
    /\ RegisteredAt(last.log, last.result.mesh) > 1
    /\ \E i \in 1..Len(last.log) : last.log[i].op = "unregisterObjectMesh"

\* The rays the queries are tried with.
QueryRays == {[origin |-> position, direction |-> Down]} \cup Rays

\* C19: with both registries empty, raycast returns the empty list,
\* checkCapsuleCollision and findGround report no hit and
\* checkObjectCollisions reports no object, and an update() that ran
\* against them has completed and left the player airborne.
C19_EmptyRegistries ==
    (meshes = <<>> /\ objectMeshes = <<>>) =>
        /\ \A ray \in QueryRays : raycast(meshes, ray.origin, ray.direction) = <<>>
        /\ ~checkCapsuleCollision(meshes, position).hit
        /\ ~findGround(meshes, position, GroundSearchDefault).hit
        /\ ~findGround(meshes, position, GroundSearchExtended).hit
        /\ ~checkObjectCollisions(objectMeshes, createPlayerOBB(position)).found
        /\ last.op = "update" =>
               /\ ~isOnGround
               /\ ~last.groundHit
               /\ ~last.objectHit
\* An update() against empty registries of a player that stood on the
\* floor of a zone unloaded since.
C19_GroundGone ==
    /\ meshes = <<>>
    /\ objectMeshes = <<>>
    /\ last.op = "update"
    /\ last.wasOnGround
    /\ position[2] < last.from[2]

\* ------------------------------------------------------------------------
\* Teleports next to ground: zones with only a tile, and targets beside the
\* tile (one step of 0.2 m from its edge), above it, and far from it.
\* ------------------------------------------------------------------------
SnapScenes == {<<"tile">>, <<"lowTile">>}
SnapTargets ==
    {<<Cm(0), Cm(300), Cm(215)>>, <<Cm(0), Cm(100), Cm(215)>>,
     <<Cm(0), Cm(-500), Cm(215)>>, <<Cm(0), Cm(300), Cm(0)>>,
     <<Cm(1000), Cm(300), Cm(1000)>>}
InitSnap == \E rooms \in SnapScenes : Construct(rooms, <<>>, <<0, 0, -UnitLen>>)
NextSnap ==
    \/ \E deltaTime \in DeltaTimes, input \in Inputs : Update(deltaTime, input)
    \/ \E target \in SnapTargets : Teleport(target)
SpecSnap == InitSnap /\ [][NextSnap]_vars

\* The ground the ground check of the last update() looked for, with the
\* extended search distance.
GroundSeen == findGround(meshes, last.beforeGround, GroundSearchExtended)

\* C20: a teleport that finds no ground sets needsGroundSnap; an update()
\* that starts with the flag set and finds no ground leaves it set; the
\* update() that starts with the flag set and finds ground puts the player
\* at ground.y + PLAYER_EYE_HEIGHT, above or below where it was, zeroes the
\* vertical velocity, sets grounded and jump, and clears the flag.
C20_GroundSnap ==
    /\ (last.op = "teleport" /\ ~last.found) => needsGroundSnap
    /\ (last.op = "update" /\ last.wasSnap /\ ~last.groundHit) => needsGroundSnap
    /\ (last.op = "update" /\ last.wasSnap /\ last.groundHit) =>
           /\ GroundSeen.hit
           /\ position[2] = GroundSeen.point[2] + PLAYER_EYE_HEIGHT
           /\ velocity[2] = 0
           /\ isOnGround
           /\ canJump
           /\ ~needsGroundSnap

\* The zone a transition teleport leads to: the zone whose spawn position
\* is the target of the teleport.
TeleportZone == CHOOSE z \in ZoneIds : Manifests[z].initialPosition = last.target
\* Every collidable asset of zone z is in its registry.
Complete(z) ==
    \A i \in 1..Len(Manifests[z].assets) :
        Manifests[z].assets[i].collision => Registered(Manifests[z].assets[i])

\* C21: whatever transitions were requested, repeated or overlapping, the
\* teleport of a transition runs only when its target zone is marked as
\* loaded and every collision mesh of that zone is registered, and physics
\* is enabled after it.
C21_TeleportDeferred ==
    last.op = "teleport" =>
        /\ zones[TeleportZone].loaded
        /\ Complete(TeleportZone)
        /\ isPhysicsReady

\* ZoneManager.loadZone(z, lodLevel) called for a zone at a level of detail.
RequestZone(z, lodLevel) ==
    /\ Len(tasks) < MaxTasks
    /\ Write(loadZone([World EXCEPT !.tasks = Append(@, Task("load", z, lodLevel, Zero3))],
                      Len(tasks) + 1, z),
             "request", Len(tasks) + 1)

\* loadAsset of the higher level settles for task t: with an object (ok) or
\* with an error.
UpgradeLoaded(t, ok) ==
    /\ tasks[t].pc = "upgrade"
    /\ Write(upgradeZoneLOD(World, t, tasks[t].zone, tasks[t].i, ok),
             IF ok THEN "upgrade" ELSE "upgradeFailed", t)

\* The zones with levels of detail, and the levels asked for.
LODZones == {"depot"}
LODLevels == {"low", "high"}
InitLOD == Construct(<<>>, <<>>, <<0, 0, -UnitLen>>)
NextLOD ==
    \/ \E z \in LODZones, lodLevel \in LODLevels : RequestZone(z, lodLevel)
    \/ \E t \in 1..Len(tasks), ok \in BOOLEAN : AssetLoaded(t, ok)
    \/ \E t \in 1..Len(tasks), ok \in BOOLEAN : UpgradeLoaded(t, ok)
    \/ \E t \in 1..Len(tasks) : Poll(t)
    \/ \E z \in LODZones : UnloadEvent(z)
SpecLOD == InitLOD /\ [][NextLOD]_vars

\* The mesh is in one of the two registries.
InRegistry(mesh) ==
    \/ IndexOfMesh(meshes, mesh) > 0
    \/ \E i \in 1..Len(objectMeshes) : objectMeshes[i].mesh = mesh

\* C22: the old and the new representation of the same asset are never
\* registered for collision at the same time: an upgrade unregisters the
\* meshes of the old one before it registers the meshes of the new one.
C22_OldBeforeNew ==
    \A z \in LODZones : \A i \in 1..Len(Manifests[z].assets) :
        ~(InRegistry(Manifests[z].assets[i].id) /\ InRegistry(Manifests[z].assets[i].high))

\* C23: when unloadZone(z) has returned, after any interleaving of loads,
\* failed asset loads, upgrades and unloads, no mesh of an object loaded for
\* z is in the room registry or in the object registry.
C23_UnloadRemovesAll ==
    last.op = "unload" =>
        \A i \in 1..Len(Manifests[last.task].assets) :
            /\ ~InRegistry(Manifests[last.task].assets[i].id)
            /\ ~InRegistry(Manifests[last.task].assets[i].high)

\* The mesh is in the room registry; the mesh is in the object registry.
InRooms(mesh) == IndexOfMesh(meshes, mesh) > 0
InObjects(mesh) == \E i \in 1..Len(objectMeshes) : objectMeshes[i].mesh = mesh
\* The meshes of the two levels of an asset.
MeshesOf(asset) == {asset.id, asset.high} \ {"none"}

\* C24: no mesh is in both registries, and a mesh of an asset is in the
\* room registry only when the asset is declared isRoom and in the object
\* registry only when it is not.
C24_OneRegistry ==
    \A z \in ZoneIds : \A i \in 1..Len(Manifests[z].assets) :
        \A mesh \in MeshesOf(Manifests[z].assets[i]) :
            /\ ~(InRooms(mesh) /\ InObjects(mesh))
            /\ InRooms(mesh) => Manifests[z].assets[i].isRoom
            /\ InObjects(mesh) => ~Manifests[z].assets[i].isRoom
\* An upgraded object and an upgraded room are registered.
C24_BothKindsRegistered == InObjects("beamHi") /\ InRooms("deckHi") /\ InRooms("shelf")

\* The point a share of positionSmoothingFactor percent of the way from the
\* rendered position to the target.
Eased(rendered, target) ==
    <<rendered[1] + Div((target[1] - rendered[1]) * positionSmoothingFactor, 100),
      rendered[2] + Div((target[2] - rendered[2]) * positionSmoothingFactor, 100),
      rendered[3] + Div((target[3] - rendered[3]) * positionSmoothingFactor, 100)>>

MoveObject(i, meshPosition) ==
    /\ meshPosition # objectMeshes[i].position
    /\ objectMeshes' = [objectMeshes EXCEPT ![i].position = meshPosition]
    /\ last' = [op |-> "move", clear |-> last.clear]
    /\ UNCHANGED <<meshes, Player, Streaming>>
InitFrames == Construct(<<"floor">>, <<"crate">>, <<0, 0, -UnitLen>>)
NextFrames ==
    \/ \E deltaTime \in DeltaTimes, input \in Inputs : Update(deltaTime, input)
    \/ \E i \in 1..Len(objectMeshes) :
           \E p \in MeshPositions(objectMeshes[i].mesh) : MoveObject(i, p)
SpecFrames == InitFrames /\ [][NextFrames]_vars

\* The sub-steps of the last frame that called checkObjectCollisions for
\* their destination (PlayerPhysics.ts line 116), each call beginning with
\* updateObjectOBBs (CollisionSystem.ts line 377).
RefreshingSteps == last.steps - last.skipped

MaxJumpFrames == 7
JumpInputs == {Input(FALSE, FALSE, FALSE, FALSE, FALSE), Input(FALSE, FALSE, FALSE, FALSE, TRUE)}
Frame(deltaTime, input) ==
    /\ frames < MaxJumpFrames
    /\ Commit(deltaTime, input, PhysicsUpdate(deltaTime, input))
    /\ UNCHANGED Streaming
InitJump == Construct(<<"floor">>, <<>>, <<0, 0, -UnitLen>>)
NextJump == \E deltaTime \in DeltaTimes, input \in JumpInputs : Frame(deltaTime, input)
SpecJump == InitJump /\ [][NextJump]_vars

\* C27: update() applies the jump impulse only in a frame that begins with
\* jump requested, isOnGround true and jump armed, and a frame that jumps
\* and does not land leaves both flags cleared; isOnGround is set again
\* only by an update() that lands the player, so from a jump until then no
\* frame applies the impulse, whatever the input.
C27_NoAirJump ==
    [][(frames' = frames + 1) =>
          /\ (last'.jumped \/ velocity'[2] = PLAYER_JUMP_FORCE)
                 => last'.input.jump /\ isOnGround /\ canJump
          /\ (last'.jumped /\ ~last'.landed)
                 => ~isOnGround' /\ ~canJump' /\ velocity'[2] = PLAYER_JUMP_FORCE
          /\ isOnGround' => last'.landed
          /\ (canJump' /\ ~canJump) => last'.landed]_vars
\* A jump is requested in a frame that begins in flight, after a jump.
C27_RequestInFlight ==
    /\ last.op = "update" /\ last.input.jump /\ ~last.wasOnGround /\ ~last.jumped
    /\ last.fromVelocity[2] > 0

\* C28 (as stated): in the update() that detects a room penetration deeper
\* than 20% of the player radius the position is not displaced by the
\* correction: the frame ends where the final check found the player.
C28_DeepNotCorrectedNow ==
    (last.op = "update" /\ last.deep) => last.computed = last.beforeFinal

\* A zone with a lintel at eye height, and spawn points 5 cm, 9 cm and 1 m
\* in front of its face.
PushTargets ==
    {<<0, Cm(300), -Cm(95)>>, <<0, Cm(300), -Cm(91)>>, <<0, Cm(300), 0>>}
InitPush == Construct(<<"floor", "lintel">>, <<>>, <<0, 0, -UnitLen>>)
NextPush ==
    \/ \E deltaTime \in DeltaTimes, input \in Inputs : Update(deltaTime, input)
    \/ \E target \in PushTargets : Teleport(target)
SpecPush == InitPush /\ [][NextPush]_vars

\* A zone with a lintel and a pier at eye height, their faces 0.16 m apart,
\* and spawn points between the two faces and in front of the lintel.
DecayTargets ==
    {<<0, Cm(300), -1834>>, <<0, Cm(300), -Cm(95)>>, <<0, Cm(300), -Cm(91)>>}
\* CollisionSystem.unregisterMesh(m), as the unload of the zone of m calls it.
RemoveRoom(m) ==
    /\ IndexOfMesh(meshes, m) > 0
    /\ meshes' = unregisterMesh(meshes, m)
    /\ last' = [op |-> "unregisterMesh", clear |-> last.clear]
    /\ UNCHANGED <<objectMeshes, Player, Streaming>>
InitDecay == Construct(<<"floor", "lintel", "pier">>, <<>>, <<0, 0, -UnitLen>>)
NextDecay ==
    \/ \E deltaTime \in DeltaTimes :
           Frame(deltaTime, Input(FALSE, FALSE, FALSE, FALSE, FALSE))
    \/ \E target \in DecayTargets : Teleport(target)
    \/ \E m \in {"lintel", "pier"} : RemoveRoom(m)
SpecDecay == InitDecay /\ [][NextDecay]_vars

\* The pushback velocity multiplied by PUSHBACK_DAMPING.
Damped(v) == MulDiv(v, PUSHBACK_DAMPING, 100)

\* C29: in every update() that begins with a nonzero pushback velocity and
\* detects no deep penetration, the pushback velocity shrinks by the damping
\* factor or becomes exactly zero.
C29_PushbackDecays ==
    [][(frames' = frames + 1 /\ pushbackVelocity # Zero3 /\ ~last'.deep) =>
          pushbackVelocity' \in {Zero3, Damped(pushbackVelocity)}]_vars

\* ------------------------------------------------------------------------
\* The sub-step loop of update() (lines 258-287) on its own, in units of
\* 0.01 mm and 0.01 ms, so that the loop's 0.0001 m tolerance is a whole
\* number.
\* ------------------------------------------------------------------------
FinePerMetre == 100 * 1000
\* PLAYER_SPEED * deltaTime: metres per second are the same number of fine
\* length units per fine time unit.
TotalDistance(deltaTime) == (PLAYER_SPEED \div Scale) * deltaTime
\* Line 269: maxStepDistance = PLAYER_RADIUS * 0.5
MaxStepFine == ((PLAYER_RADIUS * FinePerMetre) \div Scale) \div 2
\* Line 273: while (remainingDistance > 0.0001)
LoopTolerance == FinePerMetre \div 10000
\* Variant of StepDistance that takes all that remains in one step.
StepDistanceWhole(remainingDistance) == remainingDistance
\* Line 274: stepDistance = Math.min(maxStepDistance, remainingDistance)
StepDistance(remainingDistance) == Min(MaxStepFine, remainingDistance)
\* Lines 273-286: the step distances of the loop, in order.
RECURSIVE StepDistances(_, _)
StepDistances(remainingDistance, done) ==
    IF ~(remainingDistance > LoopTolerance) THEN done
    ELSE StepDistances(remainingDistance - StepDistance(remainingDistance),
                       Append(done, StepDistance(remainingDistance)))
\* Lines 279-280: stepDeltaTime = deltaTime * (stepDistance / totalDistance);
\* exact, as every distance is an even number of units.
StepDeltaTime(deltaTime, stepDistance) ==
    (deltaTime * stepDistance) \div TotalDistance(deltaTime)
RECURSIVE SumSeq(_)
SumSeq(seq) == IF seq = <<>> THEN 0 ELSE Head(seq) + SumSeq(Tail(seq))

\* Frame times in units of 0.01 ms: whole milliseconds up to the 0.1 s cap,
\* times just above 25 ms, and times below a millisecond.
StepDeltaTimes ==
    {100 * k : k \in 1..100} \cup {2500 + j : j \in 1..60} \cup (1..60)
\* update(deltaTime) with forward input, as far as the sub-step loop.
SubStepLoop(deltaTime) ==
    /\ last.op = "init"
    /\ last' = [op |-> "substeps", deltaTime |-> deltaTime,
                totalDistance |-> TotalDistance(deltaTime),
                stepDistances |-> StepDistances(TotalDistance(deltaTime), <<>>)]
    /\ UNCHANGED <<Others, Streaming>>
NextSteps == \E deltaTime \in StepDeltaTimes : SubStepLoop(deltaTime)
SpecSteps == InitIdle /\ [][NextSteps]_vars

\* The sum of the sub-step delta times of the last loop.
SumStepTimes ==
    SumSeq([k \in 1..Len(last.stepDistances) |->
               StepDeltaTime(last.deltaTime, last.stepDistances[k])])

\* C30 (as stated): the sub-step lengths sum to the full movement length
\* and the sub-step delta times sum to the frame's deltaTime.
C30_SumsExact ==
    last.op = "substeps" =>
        /\ SumSeq(last.stepDistances) = last.totalDistance
        /\ SumStepTimes = last.deltaTime

\* C30: every sub-step is positive and no longer than half the player
\* radius, the loop ends after at most totalDistance / maxStepDistance + 1
\* sub-steps, and the sub-step lengths sum to the movement length less a
\* remainder of at most 0.0001 m that the loop drops; the sub-step delta
\* times sum to the same share of deltaTime.
C30_SubSteps ==
    last.op = "substeps" =>
        /\ \A k \in 1..Len(last.stepDistances) :
               last.stepDistances[k] > 0 /\ last.stepDistances[k] <= MaxStepFine
        /\ Len(last.stepDistances) <= (last.totalDistance \div MaxStepFine) + 1
        /\ last.totalDistance - SumSeq(last.stepDistances) \in 0..LoopTolerance
        /\ SumStepTimes * last.totalDistance = last.deltaTime * SumSeq(last.stepDistances)
\* A movement of several sub-steps whose last remainder the loop drops.
C30_RemainderDropped ==
    /\ last.op = "substeps" /\ Len(last.stepDistances) > 0
    /\ SumSeq(last.stepDistances) < last.totalDistance

\* ------------------------------------------------------------------------
\* The object phase of slideCollision alone (lines 109-195), called for one
\* sub-step on positions around the crate, the post beside it and the lamp,
\* and on one a step away from the vertical through the crate's origin.
\* ------------------------------------------------------------------------
PhaseScenes == {<<"crate">>, <<"crate", "post">>, <<"lamp">>}
PhasePositions ==
    {<<Cm(x), PLAYER_EYE_HEIGHT, z * 5 - Cm(12)>> : x \in {0, 25, 30, 42}, z \in 0..48}
        \cup {<<0, PLAYER_EYE_HEIGHT, -Cm(45)>>}
\* Steps of a whole sub-step and of half a one, along and across -z.
PhaseVelocities ==
    {<<0, 0, -Cm(5)>>, <<Cm(3), 0, -Cm(4)>>, <<-Cm(3), 0, -Cm(4)>>, <<Cm(5), 0, 0>>,
     <<0, 0, -(Cm(5) \div 2)>>}
InitPhase == \E objects \in PhaseScenes : Construct(<<"floor">>, objects, <<0, 0, -UnitLen>>)
ObjectStep(p, v) ==
    /\ last.op = "init"
    /\ last' = [op |-> "objectPhase", position |-> p, velocity |-> v,
                phase |-> ObjectPhase(objectMeshes, p, v, StepTime)]
    /\ UNCHANGED <<Others, Streaming>>
NextPhase == \E p \in PhasePositions, v \in PhaseVelocities : ObjectStep(p, v)
SpecPhase == InitPhase /\ [][NextPhase]_vars

\* The candidates of the last object phase that collide with no object.
FreeCandidates ==
    {k \in 1..(1 + Len(slideAttempts)) :
        ~Collides(objectMeshes,
                  SlideCandidates(last.phase.resolvedPosition,
                                  last.phase.limitedSlideVector)[k])}
FirstFree == CHOOSE k \in FreeCandidates : \A j \in FreeCandidates : k <= j
Negligible == LengthSq(last.phase.slideVector) <= SlideEpsilonSq

\* C31: after an object collision the slide applied is at most 40% of the
\* step length (lengths in whole length units, as Length gives them); the full slide and then 75%, 50%, 25%, 10% of it are tried
\* in that order and the first that collides with no object is taken; when
\* all collide, or the slide is negligible, the object phase ends exactly
\* at the pushed-out position.
C31_ObjectSlide ==
    (last.op = "objectPhase" /\ last.phase.collided) =>
        /\ Length(Sub(last.phase.finalPosition, last.phase.resolvedPosition)) * 100
               <= Length(last.velocity) * COLLISION_SPEED_FACTOR
        /\ (Negligible \/ FreeCandidates = {})
               => last.phase.finalPosition = last.phase.resolvedPosition
        /\ (~Negligible /\ FreeCandidates # {})
               => last.phase.finalPosition =
                      SlideCandidates(last.phase.resolvedPosition,
                                      last.phase.limitedSlideVector)[FirstFree]

\* An object phase whose full slide collided and whose 50% slide was taken.
C31_HalfSlideTaken ==
    /\ last.op = "objectPhase" /\ last.phase.collided
    /\ ~Negligible
    /\ FreeCandidates # {} /\ FirstFree = 3

\* ------------------------------------------------------------------------
\* resolvePenetration alone, for the player box at positions around and
\* inside a registered object, and step times that update() can pass: a
\* whole sub-step (25 ms), half a one, and the short last sub-step of a
\* frame (2 ms, 1 ms, 0.25 ms).
\* ------------------------------------------------------------------------
ResolveStepTimes == {StepTime, StepTime \div 2, 2000, 1000, 250}
\* The eye position at which the player box is centred on the crate.
OnCrate == <<0, MeshData("crate").position[2] + (PLAYER_EYE_HEIGHT - PLAYER_HEIGHT \div 2),
             MeshData("crate").position[3]>>
ResolvePositions ==
    PhasePositions \cup {OnCrate, Add(OnCrate, <<1, 0, 0>>), Add(OnCrate, <<0, Cm(10), 0>>),
                         Add(OnCrate, <<Cm(20), Cm(100), Cm(20)>>),
                         Add(OnCrate, <<0, Cm(115), 0>>), Add(OnCrate, <<0, Cm(120), 0>>)}
Resolve(p, i, deltaTimeMicros) ==
    /\ last.op = "init"
    /\ last' = [op |-> "resolvePenetration", playerOBB |-> createPlayerOBB(p),
                objectOBB |-> objectMeshes[i].obb, deltaTime |-> deltaTimeMicros,
                result |-> resolvePenetration(createPlayerOBB(p), objectMeshes[i].obb,
                                              deltaTimeMicros)]
    /\ UNCHANGED <<Others, Streaming>>
NextResolve ==
    \E p \in ResolvePositions, i \in 1..Len(objectMeshes), deltaTimeMicros \in ResolveStepTimes :
        Resolve(p, i, deltaTimeMicros)
SpecResolve == InitPhase /\ [][NextResolve]_vars

\* penetrationDepth of the last call (lines 426-446), zero when the centres
\* are at least minSeparation apart.
PenetrationDepth ==
    Max(0, Max(last.objectOBB.halfSize[1],
               Max(last.objectOBB.halfSize[2], last.objectOBB.halfSize[3]))
           + Max(last.playerOBB.halfSize[1], last.playerOBB.halfSize[2])
           - Length(Sub(last.playerOBB.center, last.objectOBB.center)))

\* C32: the vector resolvePenetration returns is no longer than
\* MAX_PUSH_PER_SECOND (2 x PLAYER_SPEED) times the step time, and no
\* longer than the penetration depth plus the margin.
C32_PushClamped ==
    last.op = "resolvePenetration" =>
        /\ Length(last.result) * 1000 <= (MAX_PUSH_PER_SECOND * last.deltaTime) \div 1000
        /\ Length(last.result) <= PenetrationDepth + MARGIN
        /\ PenetrationDepth = 0 => last.result = Zero3
\* A call on a penetrating pair whose push the step time limited.
C32_ClampApplied ==
    /\ last.op = "resolvePenetration"
    /\ PenetrationDepth + MARGIN > Div(MAX_PUSH_PER_SECOND * last.deltaTime, Micro)
    /\ Length(last.result) >= Div(MAX_PUSH_PER_SECOND * last.deltaTime, Micro) - 1
    /\ last.result # Zero3

\* C33: a ground hit findGround reports is no farther than maxDistance
\* below the query position, hits found below a thick mesh included, and
\* the reported distance is the vertical distance from the query position
\* to the reported point.
C33_GroundWithinReach ==
    (last.op = "findGround" /\ last.result.hit) =>
        /\ last.position[2] - last.result.point[2] <= last.maxDistance
        /\ last.result.distance = last.position[2] - last.result.point[2]

\* testOBBvsOBB(b, a) for the boxes of the last call
Swapped == testOBBvsOBB(last.b, last.a)

\* C34 (as stated): the normal of a colliding pair has a non-negative dot
\* product with center2 - center1, and swapping the arguments negates it
\* when the centres differ along it.
C34_NormalTowardSecond ==
    (last.op = "sat" /\ last.result.colliding) =>
        /\ Dot(Sub(last.b.center, last.a.center), last.result.normal) >= 0
        /\ Dot(Sub(last.b.center, last.a.center), last.result.normal) # 0
               => Swapped.normal = Neg(last.result.normal)

\* The candidate axes of the last call whose overlap is the reported
\* penetration depth.
MinOverlapAxes ==
    {CandidateAxes(last.a, last.b)[k] : k \in
        {j \in 1..Len(CandidateAxes(last.a, last.b)) :
            Overlap(projectOntoAxis(last.a, CandidateAxes(last.a, last.b)[j]),
                    projectOntoAxis(last.b, CandidateAxes(last.a, last.b)[j]))
                = last.result.penetrationDepth}}
\* No two axes in different directions share the minimum overlap.
OneMinDirection == \A x, y \in MinOverlapAxes : x = y \/ x = Neg(y)

\* C34 (amended): the normal of a colliding pair has a non-negative dot
\* product with center2 - center1; the swapped call returns an axis of the
\* same minimum overlap with a non-negative dot product with
\* center1 - center2, which is the negated normal when the centres differ
\* along the normal and no two candidate axes in different directions tie
\* for the minimum overlap.
C34_NormalTowardSecondUntied ==
    (last.op = "sat" /\ last.result.colliding) =>
        /\ Dot(Sub(last.b.center, last.a.center), last.result.normal) >= 0
        /\ \A swapped \in {Swapped.normal}, axes \in {MinOverlapAxes} :
               /\ Dot(Sub(last.a.center, last.b.center), swapped) >= 0
               /\ swapped \in axes \/ Neg(swapped) \in axes
               /\ (/\ Dot(Sub(last.b.center, last.a.center), last.result.normal) # 0
                   /\ \A x, y \in axes : x = y \/ x = Neg(y))
                      => swapped = Neg(last.result.normal)
\* Two differently turned colliding boxes with one direction of minimum
\* overlap, the centres apart along it, whose normal the swap negates.
C34_SwapNegates ==
    /\ last.op = "sat" /\ last.result.colliding
    /\ last.a.axes # last.b.axes
    /\ OneMinDirection
    /\ Dot(Sub(last.b.center, last.a.center), last.result.normal) > 0
    /\ Swapped.normal = Neg(last.result.normal)
    /\ last.result.normal \notin {last.a.axes[1], last.a.axes[2], last.a.axes[3]}

\* C39: testOBBvsOBB(a, b) and testOBBvsOBB(b, a) agree on colliding, and
\* when colliding report the same penetration depth.
C39_VerdictSymmetric ==
    last.op = "sat" =>
        \A swapped \in {Swapped} :
            /\ swapped.colliding = last.result.colliding
            /\ last.result.colliding
                   => swapped.penetrationDepth = last.result.penetrationDepth
\* A colliding pair of differently turned boxes with different centres whose
\* two calls return normals along different axes.
C39_SwappedOtherAxis ==
    /\ last.op = "sat" /\ last.result.colliding
    /\ last.a.axes # last.b.axes
    /\ last.a.center # last.b.center
    /\ last.result.penetrationDepth > 0
    /\ Swapped.normal \notin {last.result.normal, Neg(last.result.normal)}
    /\ Swapped.penetrationDepth = last.result.penetrationDepth

\* C35: the collision normal slideCollision slides along (after
\* collisionNormal.y = 0 and the world-up substitution) is of unit length,
\* never the zero vector, and so is the direction of a push-out.
C35_UnitNormal ==
    (last.op = "objectPhase" /\ last.phase.collided) =>
        /\ last.phase.collisionNormal # Zero3
        /\ Abs(Length(last.phase.collisionNormal) - UnitLen) <= UnitLen \div 500

\* snapToGroundFrom, lines 77-79: the flag and the velocity as the call
\* leaves them, before PlayerPhysics.teleport clears the flag.
SnapGrounding(s, onGround, v) ==
    [isOnGround |-> s.found \/ onGround, velocity |-> IF s.found THEN Zero3 ELSE v]

\* C36: after every update() and every teleport, and after the
\* snapToGroundFrom() inside a teleport, isOnGround implies that the
\* vertical velocity is zero.
C36_GroundedAtRest ==
    /\ [](isOnGround => velocity[2] = 0)
    /\ [][last'.op = "teleport" =>
              \A g \in {SnapGrounding(snapToGroundFrom(last'.target), isOnGround, velocity)} :
                  g.isOnGround => g.velocity[2] = 0]_vars
\* A frame that began falling and ended grounded.
C36_LandedFromFall ==
    /\ last.op = "update"
    /\ last.fromVelocity[2] < 0
    /\ ~last.wasOnGround
    /\ isOnGround
    /\ velocity[2] = 0

\* C37: for a step velocity with y = 0, slideCollision returns a position
\* with the y of its input position.
C37_HeightKept ==
    (last.op = "slide" /\ last.velocity[2] = 0)
        => last.result.position[2] = last.position[2]

\* C38: the safety net does not restore the player to a last-safe position
\* recorded before the most recent teleport.  When snapToGroundFrom() found
\* no ground for the teleport and the next frame does not land, the
\* last-safe position that frame starts with was recorded before the
\* teleport; the frame's safety net must not restore the player to it.
C38_NetKeepsTeleport ==
    (/\ last.op = "update"
     /\ last.fell
     /\ ~last.landed
     /\ last.teleport # <<>>
     /\ last.wasSafe # <<>>)
    => (last.teleport[1].found \/ position # last.wasSafe[1])

====
